---------------------------- MODULE Spec2Model ----------------------------
(***************************************************************************)
(* Environment detector: the timed cache, the detector contract            *)
(* (cache-or-compute, reset, sync and async paths) and the decision logic  *)
(* of the OS, container, CI, cloud and privilege detectors, the plugin     *)
(* manager and the EnvironmentDetector facade.                             *)
(*                                                                         *)
(* Specifications:                                                         *)
(*   SpecCache      the Cache API on its own                               *)
(*   Spec           detector instances sharing the singleton Cache         *)
(*   SpecOS, SpecContainer, SpecCI, SpecCloud, SpecPriv                    *)
(*                  one performDetection() over a bounded environment      *)
(*   SpecEvents     PluginContextImpl.on / off / emit                      *)
(*   SpecPlugin     PluginManagerImpl.use / remove with their hooks        *)
(*   SpecClear      PluginManagerImpl.clear on a quiescent manager         *)
(*   SpecFacade     one facade call on a facade whose cache is warmed up   *)
(*   SpecConstruct  facades constructed next to detectors in use           *)
(***************************************************************************)
EXTENDS Integers, Sequences, FiniteSets, Bags, TLC

VARIABLES
    store,      \* Cache.store : key -> CacheEntry
    enabled,    \* Cache.enabled
    now,        \* Date.now()
    env,        \* what the process can observe: os, process.env, files, commands
    inflight,   \* bag of suspended detectAsync() calls, each holding its result
    fresh,      \* history: names reset with no detect activity on the key since
    last,       \* history: the operation that just ran and what it returned
    pm          \* the PluginManagerImpl singleton and its PluginContextImpl

vars == <<store, enabled, now, env, inflight, fresh, last, pm>>

-----------------------------------------------------------------------------
(* Bounds *)

MaxTime == 3
MaxInflight == 2
MaxSet == 2

-----------------------------------------------------------------------------
(* JavaScript values: undefined / null and defined values *)

Undefined == [def |-> FALSE]
Def(v) == [def |-> TRUE, val |-> v]

-----------------------------------------------------------------------------
(* Cache (src/core/cache.ts).  Each operation is split into the store it   *)
(* leaves and the value it returns.                                        *)

Entry(v, t, ttl) == [value |-> v, timestamp |-> t, timeout |-> ttl]

Remove(s, k) == [x \in DOMAIN s \ {k} |-> s[x]]

ExpiredMutantGE(e, t) == t - e.timestamp >= e.timeout

Expired(e, t) == t - e.timestamp > e.timeout

CacheGetRet(s, en, k, t) ==
    IF ~en THEN Undefined
    ELSE IF k \notin DOMAIN s THEN Undefined
    ELSE IF Expired(s[k], t) THEN Undefined
    ELSE s[k].value

CacheGetStore(s, en, k, t) ==
    IF ~en THEN s
    ELSE IF k \notin DOMAIN s THEN s
    ELSE IF Expired(s[k], t) THEN Remove(s, k)
    ELSE s

CacheSetStore(s, en, k, v, ttl, t) ==
    IF ~en THEN s
    ELSE [x \in DOMAIN s \cup {k} |-> IF x = k THEN Entry(v, t, ttl) ELSE s[x]]

CacheHasRet(s, en, k, t) ==
    IF ~en THEN FALSE
    ELSE IF k \notin DOMAIN s THEN FALSE
    ELSE IF Expired(s[k], t) THEN FALSE
    ELSE TRUE

CacheHasStore(s, en, k, t) ==
    IF ~en THEN s
    ELSE IF k \notin DOMAIN s THEN s
    ELSE IF Expired(s[k], t) THEN Remove(s, k)
    ELSE s

CacheDeleteRet(s, k) == k \in DOMAIN s

CacheDeleteStore(s, k) == Remove(s, k)

EmptyStore == [x \in {} |-> Undefined]

CacheClearStore(s) == EmptyStore

CacheDisableStoreMutantKeep(s) == s

CacheDisableStore(s) == CacheClearStore(s)

CacheSize(s) == Cardinality(DOMAIN s)

-----------------------------------------------------------------------------
(* Strings the code inspects character by character are sequences of      *)
(* one-character strings; names of variables, paths, commands and enum     *)
(* members are plain strings.                                              *)

UpperChars == <<"A","B","C","D","E","F","G","H","I","J","K","L","M","N","O","P","Q","R","S","T","U","V","W","X","Y","Z">>
LowerChars == <<"a","b","c","d","e","f","g","h","i","j","k","l","m","n","o","p","q","r","s","t","u","v","w","x","y","z">>
DigitChars == <<"0","1","2","3","4","5","6","7","8","9">>

InSeq(c, s) == \E i \in 1..Len(s) : s[i] = c

IndexIn(c, s) == CHOOSE i \in 1..Len(s) : s[i] = c

\* String.prototype.toLowerCase
ToLowerCase(s) ==
    [i \in 1..Len(s) |->
        IF InSeq(s[i], UpperChars) THEN LowerChars[IndexIn(s[i], UpperChars)] ELSE s[i]]

\* String.prototype.includes
Includes(s, t) ==
    \E i \in 1..(Len(s) - Len(t) + 1) : SubSeq(s, i, i + Len(t) - 1) = t

\* String.prototype.startsWith
StartsWith(s, t) == Len(s) >= Len(t) /\ SubSeq(s, 1, Len(t)) = t

\* JavaScript truthiness of a string | undefined | null
Truthy(x) == x.def /\ x.val # <<>>

-----------------------------------------------------------------------------
(* The observable environment and the utilities that read it               *)
(* (src/utils/process.ts, src/utils/file.ts).                              *)

NoVars == [x \in {} |-> <<>>]

BaseEnv ==
    [platform  |-> "linux",     \* os.platform()
     osThrows  |-> "none",      \* which os.* call throws, if any
     hasOsVersion |-> TRUE,     \* os.version is available
     vars      |-> NoVars,      \* process.env
     files     |-> {},          \* paths fs.accessSync accepts
     dirs      |-> {},          \* paths fs.statSync reports as directories
     content   |-> NoVars,      \* readable files and their text
     hostname  |-> <<"h","o","s","t">>,     \* os.hostname()
     uid       |-> Def(1000),   \* process.getuid(), undefined where missing
     gid       |-> Def(1000),   \* process.getgid(), undefined where missing
     username  |-> Def("user"), \* os.userInfo().username, undefined on failure
     cmds      |-> NoVars,      \* commands that exit 0, with their stdout
     nodeVersion |-> <<"v","1","8",".","1","7",".","0">>,   \* process.version
     caches    |-> "absent",    \* the global `caches`
     cfGlobal  |-> FALSE,       \* CloudflareWorker / MINIFLARE / navigator
     cfThrows  |-> FALSE]       \* reading those globals throws

getEnv(e, key) == IF key \in DOMAIN e.vars THEN Def(e.vars[key]) ELSE Undefined

hasEnv(e, key) == key \in DOMAIN e.vars

getEnvBoolean(e, key) ==
    LET value == getEnv(e, key)
    IN  IF ~Truthy(value) THEN FALSE
        ELSE ToLowerCase(value.val) = <<"t","r","u","e">> \/ value.val = <<"1">>

fileExists(e, path) == path \in e.files

readFile(e, path) == IF path \in DOMAIN e.content THEN Def(e.content[path]) ELSE Undefined

isDirectory(e, path) == path \in e.dirs

getUID(e) == e.uid

isRoot(e) == getUID(e) = Def(0)

-----------------------------------------------------------------------------
(* OSDetector (src/detectors/os.ts) *)

\* the try block throws when one of the os.* calls it makes throws
OSReadThrows(e) ==
    \/ e.osThrows \in {"platform", "release", "arch"}
    \/ e.osThrows = "version" /\ e.hasOsVersion

OSTypeMutantDarwinAsLinux(platform) ==
    CASE platform = "win32"  -> [type |-> "windows", isWindows |-> TRUE,  isMacOS |-> FALSE, isLinux |-> FALSE]
      [] platform = "darwin" -> [type |-> "macos",   isWindows |-> FALSE, isMacOS |-> TRUE,  isLinux |-> TRUE]
      [] platform = "linux"  -> [type |-> "linux",   isWindows |-> FALSE, isMacOS |-> FALSE, isLinux |-> TRUE]
      [] OTHER               -> [type |-> "unknown", isWindows |-> FALSE, isMacOS |-> FALSE, isLinux |-> FALSE]

\* the switch over the platform identifier
OSType(platform) ==
    CASE platform = "win32"  -> [type |-> "windows", isWindows |-> TRUE,  isMacOS |-> FALSE, isLinux |-> FALSE]
      [] platform = "darwin" -> [type |-> "macos",   isWindows |-> FALSE, isMacOS |-> TRUE,  isLinux |-> FALSE]
      [] platform = "linux"  -> [type |-> "linux",   isWindows |-> FALSE, isMacOS |-> FALSE, isLinux |-> TRUE]
      [] OTHER               -> [type |-> "unknown", isWindows |-> FALSE, isMacOS |-> FALSE, isLinux |-> FALSE]

\* the catch block's record
OSFallback ==
    [platform |-> "linux", type |-> "unknown", arch |-> "unknown",
     release |-> "unknown", version |-> "unknown",
     isWindows |-> FALSE, isMacOS |-> FALSE, isLinux |-> FALSE]

OSPerformDetection(e) ==
    IF OSReadThrows(e) THEN OSFallback
    ELSE LET t == OSType(e.platform)
         IN  [platform |-> e.platform, type |-> t.type,
              version |-> IF e.hasOsVersion THEN "os-version" ELSE "os-release",
              release |-> "os-release", arch |-> "os-arch",
              isWindows |-> t.isWindows, isMacOS |-> t.isMacOS, isLinux |-> t.isLinux]

-----------------------------------------------------------------------------
(* CIDetector (detectors/ci.ts) *)

\* Object.values(CI_PROVIDER_ENV_VARS)
CI_PROVIDER_ENV_VARS ==
    {"GITHUB_ACTIONS", "GITLAB_CI", "TRAVIS", "CIRCLECI", "JENKINS_URL",
     "BITBUCKET_BUILD_NUMBER", "TEAMCITY_VERSION", "APPVEYOR",
     "CODEBUILD_BUILD_ID", "TF_BUILD"}

detectCI(e) ==
    \/ getEnvBoolean(e, "CI")
    \/ getEnvBoolean(e, "CONTINUOUS_INTEGRATION")
    \/ hasEnv(e, "BUILD_NUMBER")
    \/ hasEnv(e, "CI_NAME")
    \/ \E envVar \in CI_PROVIDER_ENV_VARS : hasEnv(e, envVar)

detectCIProviderMutantJenkinsFirst(e) ==
    IF getEnvBoolean(e, "GITHUB_ACTIONS") THEN "github-actions"
    ELSE IF getEnvBoolean(e, "GITLAB_CI") THEN "gitlab-ci"
    ELSE IF getEnvBoolean(e, "TRAVIS") THEN "travis-ci"
    ELSE IF hasEnv(e, "JENKINS_URL") THEN "jenkins"
    ELSE IF getEnvBoolean(e, "CIRCLECI") THEN "circleci"
    ELSE IF getEnvBoolean(e, "TF_BUILD") THEN "azure-pipelines"
    ELSE IF hasEnv(e, "BITBUCKET_BUILD_NUMBER") THEN "bitbucket-pipelines"
    ELSE IF hasEnv(e, "TEAMCITY_VERSION") THEN "teamcity"
    ELSE IF getEnvBoolean(e, "APPVEYOR") THEN "appveyor"
    ELSE IF hasEnv(e, "CODEBUILD_BUILD_ID") THEN "codebuild"
    ELSE "unknown"

detectCIProvider(e) ==
    IF getEnvBoolean(e, "GITHUB_ACTIONS") THEN "github-actions"
    ELSE IF getEnvBoolean(e, "GITLAB_CI") THEN "gitlab-ci"
    ELSE IF getEnvBoolean(e, "TRAVIS") THEN "travis-ci"
    ELSE IF getEnvBoolean(e, "CIRCLECI") THEN "circleci"
    ELSE IF hasEnv(e, "JENKINS_URL") THEN "jenkins"
    ELSE IF getEnvBoolean(e, "TF_BUILD") THEN "azure-pipelines"
    ELSE IF hasEnv(e, "BITBUCKET_BUILD_NUMBER") THEN "bitbucket-pipelines"
    ELSE IF hasEnv(e, "TEAMCITY_VERSION") THEN "teamcity"
    ELSE IF getEnvBoolean(e, "APPVEYOR") THEN "appveyor"
    ELSE IF hasEnv(e, "CODEBUILD_BUILD_ID") THEN "codebuild"
    ELSE "unknown"

getCIName(e, provider) ==
    CASE provider = "github-actions"      -> <<"G","i","t","H","u","b"," ","A","c","t","i","o","n","s">>
      [] provider = "gitlab-ci"           -> <<"G","i","t","L","a","b"," ","C","I">>
      [] provider = "travis-ci"           -> <<"T","r","a","v","i","s"," ","C","I">>
      [] provider = "circleci"            -> <<"C","i","r","c","l","e","C","I">>
      [] provider = "jenkins"             -> <<"J","e","n","k","i","n","s">>
      [] provider = "azure-pipelines"     -> <<"A","z","u","r","e"," ","P","i","p","e","l","i","n","e","s">>
      [] provider = "bitbucket-pipelines" -> <<"B","i","t","b","u","c","k","e","t"," ","P","i","p","e","l","i","n","e","s">>
      [] provider = "teamcity"            -> <<"T","e","a","m","C","i","t","y">>
      [] provider = "appveyor"            -> <<"A","p","p","V","e","y","o","r">>
      [] provider = "codebuild"           -> <<"A","W","S"," ","C","o","d","e","B","u","i","l","d">>
      [] OTHER -> IF Truthy(getEnv(e, "CI_NAME")) THEN getEnv(e, "CI_NAME").val
                  ELSE <<"U","n","k","n","o","w","n"," ","C","I">>

detectPullRequest(e, provider) ==
    CASE provider = "github-actions" -> getEnv(e, "GITHUB_EVENT_NAME") = Def(<<"p","u","l","l","_","r","e","q","u","e","s","t">>)
      [] provider = "gitlab-ci" ->
            hasEnv(e, "CI_MERGE_REQUEST_ID") \/ hasEnv(e, "CI_EXTERNAL_PULL_REQUEST_IID")
      [] provider = "travis-ci" -> getEnv(e, "TRAVIS_PULL_REQUEST") # Def(<<"f","a","l","s","e">>)
      [] provider = "circleci" -> hasEnv(e, "CIRCLE_PULL_REQUEST") \/ hasEnv(e, "CIRCLE_PR_NUMBER")
      [] provider = "jenkins" -> hasEnv(e, "CHANGE_ID") \/ hasEnv(e, "ghprbPullId")
      [] provider = "azure-pipelines" -> hasEnv(e, "SYSTEM_PULLREQUEST_PULLREQUESTID")
      [] provider = "bitbucket-pipelines" -> hasEnv(e, "BITBUCKET_PR_ID")
      [] provider = "teamcity" -> hasEnv(e, "TEAMCITY_PULL_REQUEST_NUMBER")
      [] provider = "appveyor" -> hasEnv(e, "APPVEYOR_PULL_REQUEST_NUMBER")
      [] provider = "codebuild" ->
            hasEnv(e, "CODEBUILD_WEBHOOK_HEAD_REF")
            /\ StartsWith(getEnv(e, "CODEBUILD_WEBHOOK_HEAD_REF").val, <<"r","e","f","s","/","p","u","l","l","/">>)
      [] OTHER -> hasEnv(e, "PR_NUMBER") \/ hasEnv(e, "PULL_REQUEST_ID") \/ hasEnv(e, "PULL_REQUEST")

CIPerformDetectionMutantAlwaysFull(e) ==
    LET provider == detectCIProvider(e)
    IN  [isCI |-> detectCI(e), name |-> getCIName(e, provider),
         isPR |-> detectPullRequest(e, provider), provider |-> provider]

\* the record carries exactly the properties the object literal lists
CIPerformDetection(e) ==
    IF ~detectCI(e) THEN [isCI |-> FALSE]
    ELSE LET provider == detectCIProvider(e)
         IN  [isCI |-> TRUE, name |-> getCIName(e, provider),
              isPR |-> detectPullRequest(e, provider), provider |-> provider]

-----------------------------------------------------------------------------
(* CloudDetector (detectors/cloud.ts).  A routine that can throw returns   *)
(* [threw, val].                                                           *)

OrElse(x, y) == IF Truthy(x) THEN x ELSE y

\* `'default' in global.caches` sits outside the try block and throws when
\* `caches` exists but is not an object
detectCloudflareWorkers(e) ==
    IF e.caches = "primitive" THEN [threw |-> TRUE, val |-> FALSE]
    ELSE IF e.caches = "default" THEN [threw |-> FALSE, val |-> TRUE]
    ELSE IF e.cfThrows THEN [threw |-> FALSE, val |-> FALSE]
    ELSE [threw |-> FALSE, val |-> e.cfGlobal]

detectAWS(e) ==
    \/ hasEnv(e, "AWS_EXECUTION_ENV")
    \/ hasEnv(e, "AWS_LAMBDA_RUNTIME_API")
    \/ hasEnv(e, "_HANDLER")
    \/ hasEnv(e, "LAMBDA_TASK_ROOT")
    \/ hasEnv(e, "LAMBDA_RUNTIME_DIR")
    \/ hasEnv(e, "ECS_CONTAINER_METADATA_URI")
    \/ hasEnv(e, "ECS_CONTAINER_METADATA_URI_V4")
    \/ fileExists(e, "/sys/hypervisor/uuid")

detectCloudProvider(e) ==
    IF hasEnv(e, "AWS_LAMBDA_FUNCTION_NAME") \/ hasEnv(e, "AWS_EXECUTION_ENV")
        THEN [threw |-> FALSE, val |-> Def("aws-lambda")]
    ELSE IF hasEnv(e, "FUNCTION_NAME") \/ hasEnv(e, "K_SERVICE")
        THEN [threw |-> FALSE, val |-> Def("google-cloud-functions")]
    ELSE IF hasEnv(e, "WEBSITE_SITE_NAME") /\ hasEnv(e, "FUNCTIONS_EXTENSION_VERSION")
        THEN [threw |-> FALSE, val |-> Def("azure-functions")]
    ELSE IF hasEnv(e, "VERCEL") \/ hasEnv(e, "VERCEL_ENV")
        THEN [threw |-> FALSE, val |-> Def("vercel")]
    ELSE IF hasEnv(e, "NETLIFY") \/ hasEnv(e, "NETLIFY_BUILD_BASE")
        THEN [threw |-> FALSE, val |-> Def("netlify")]
    ELSE IF hasEnv(e, "CF_WORKER")
        THEN [threw |-> FALSE, val |-> Def("cloudflare-workers")]
    ELSE IF detectCloudflareWorkers(e).threw
        THEN [threw |-> TRUE, val |-> Undefined]
    ELSE IF detectCloudflareWorkers(e).val
        THEN [threw |-> FALSE, val |-> Def("cloudflare-workers")]
    ELSE IF detectAWS(e)
        THEN [threw |-> FALSE, val |-> Def("aws-lambda")]
    ELSE [threw |-> FALSE, val |-> Undefined]

isServerlessEnvironmentMutantNoGuard(e, provider) ==
    hasEnv(e, "VERCEL_FUNCTION") \/ hasEnv(e, "NETLIFY_FUNCTION_NAME") \/ hasEnv(e, "NETLIFY_DEV")

isServerlessEnvironment(e, provider) ==
    IF ~provider.def THEN FALSE
    ELSE IF provider.val \in {"aws-lambda", "google-cloud-functions",
                              "azure-functions", "cloudflare-workers"} THEN TRUE
    ELSE IF provider.val \in {"vercel", "netlify"}
        THEN hasEnv(e, "VERCEL_FUNCTION") \/ hasEnv(e, "NETLIFY_FUNCTION_NAME")
             \/ hasEnv(e, "NETLIFY_DEV")
    ELSE FALSE

getFunctionName(e, provider) ==
    IF ~provider.def THEN Undefined
    ELSE CASE provider.val = "aws-lambda" -> getEnv(e, "AWS_LAMBDA_FUNCTION_NAME")
           [] provider.val = "google-cloud-functions" ->
                 OrElse(getEnv(e, "FUNCTION_NAME"), getEnv(e, "K_SERVICE"))
           [] provider.val = "azure-functions" -> getEnv(e, "WEBSITE_SITE_NAME")
           [] provider.val = "vercel" -> getEnv(e, "VERCEL_FUNCTION")
           [] provider.val = "netlify" -> getEnv(e, "NETLIFY_FUNCTION_NAME")
           [] provider.val = "cloudflare-workers" ->
                 OrElse(getEnv(e, "CF_WORKER_NAME"), getEnv(e, "WORKER_NAME"))
           [] OTHER -> Undefined

getRegion(e, provider) ==
    IF ~provider.def THEN Undefined
    ELSE CASE provider.val = "aws-lambda" ->
                 OrElse(getEnv(e, "AWS_REGION"), getEnv(e, "AWS_DEFAULT_REGION"))
           [] provider.val = "google-cloud-functions" ->
                 OrElse(getEnv(e, "FUNCTION_REGION"), getEnv(e, "GCP_REGION"))
           [] provider.val = "azure-functions" ->
                 OrElse(getEnv(e, "REGION_NAME"), getEnv(e, "AZURE_REGION"))
           [] provider.val = "vercel" -> getEnv(e, "VERCEL_REGION")
           [] provider.val = "cloudflare-workers" -> getEnv(e, "CF_REGION")
           [] OTHER -> Undefined

CloudPerformDetection(e) ==
    LET p == detectCloudProvider(e)
    IN  IF p.threw THEN [threw |-> TRUE, val |-> Undefined]
        ELSE [threw |-> FALSE,
              val |-> [isCloud |-> p.val.def,
                       provider |-> p.val,
                       isServerless |-> isServerlessEnvironment(e, p.val),
                       functionName |-> getFunctionName(e, p.val),
                       region |-> getRegion(e, p.val)]]

-----------------------------------------------------------------------------
(* PrivilegeDetector (src/detectors/privileges.ts) *)

WhiteSpace == {" ", "\n", "\t"}

RECURSIVE TrimStart(_)
TrimStart(s) == IF s # <<>> /\ Head(s) \in WhiteSpace THEN TrimStart(Tail(s)) ELSE s

RECURSIVE TrimEnd(_)
TrimEnd(s) ==
    IF s # <<>> /\ s[Len(s)] \in WhiteSpace THEN TrimEnd(SubSeq(s, 1, Len(s) - 1)) ELSE s

\* String.prototype.trim
Trim(s) == TrimEnd(TrimStart(s))

\* execSync of utils/process.ts: the child's failure becomes null, never a throw

execSync(e, command) ==
    IF command \in DOMAIN e.cmds THEN Def(Trim(e.cmds[command])) ELSE Undefined

\* execSync never throws, so the try block always returns and neither
\* catch handler of the source runs
isWindowsAdmin(e) == execSync(e, "net session 2>nul") # Undefined

\* the catch handler (sudo -n true) is not reached for the same reason
isUnixAdmin(e) ==
    IF isRoot(e) THEN TRUE
    ELSE LET groups == execSync(e, "groups")
         IN  IF Truthy(groups)
             THEN LET groupList == ToLowerCase(groups.val)
                  IN  \/ Includes(groupList, <<"a","d","m","i","n">>)
                      \/ Includes(groupList, <<"s","u","d","o">>)
                      \/ Includes(groupList, <<"w","h","e","e","l">>)
                      \/ Includes(groupList, <<"r","o","o","t">>)
             ELSE FALSE

isAdminMutantRootIsAdmin(e, platform) ==
    CASE platform = "win32" -> isWindowsAdmin(e)
      [] platform \in {"darwin", "linux"} -> isUnixAdmin(e)
      [] OTHER -> isRoot(e)

isAdmin(e, platform) ==
    CASE platform = "win32" -> isWindowsAdmin(e)
      [] platform \in {"darwin", "linux"} -> isUnixAdmin(e)
      [] OTHER -> FALSE

PrivPerformDetection(e) ==
    LET isRootUser == isRoot(e)
        isAdminUser == isAdmin(e, e.platform)
    IN  [isElevated |-> isRootUser \/ isAdminUser,
         isRoot |-> isRootUser,
         isAdmin |-> isAdminUser,
         uid |-> getUID(e),
         gid |-> e.gid,
         username |-> e.username]

-----------------------------------------------------------------------------
(* ContainerDetector (src/detectors/container.ts) *)

IsDigit(c) == InSeq(c, DigitChars)

\* last index of the run of digits that starts at i
RunEnd(s, i) ==
    CHOOSE j \in i..Len(s) :
        /\ \A k \in i..j : IsDigit(s[k])
        /\ j = Len(s) \/ ~IsDigit(s[j + 1])

\* /(\d+)\.(\d+)\.(\d+)/ matches with its first group starting at i
KernelMatchAt(s, i) ==
    /\ IsDigit(s[i])
    /\ LET a == RunEnd(s, i)
       IN  /\ a + 2 <= Len(s)
           /\ s[a + 1] = "."
           /\ IsDigit(s[a + 2])
           /\ LET b == RunEnd(s, a + 2)
              IN  /\ b + 2 <= Len(s)
                  /\ s[b + 1] = "."
                  /\ IsDigit(s[b + 2])

\* first capture group of the leftmost match, or no match
KernelMatch(s) ==
    IF \E i \in 1..Len(s) : KernelMatchAt(s, i)
    THEN LET i == CHOOSE i \in 1..Len(s) :
                    KernelMatchAt(s, i) /\ \A j \in 1..(i - 1) : ~KernelMatchAt(s, j)
         IN  Def(SubSeq(s, i, RunEnd(s, i)))
    ELSE Undefined

RECURSIVE ParseInt(_)
\* parseInt(digits, 10) of a non-empty run of digits
ParseInt(d) ==
    IF d = <<>> THEN 0
    ELSE 10 * ParseInt(SubSeq(d, 1, Len(d) - 1)) + (IndexIn(d[Len(d)], DigitChars) - 1)

getWSLVersion(e) ==
    LET procVersion == readFile(e, "/proc/version")
    IN  IF ~Truthy(procVersion) THEN Undefined
        ELSE IF \/ Includes(procVersion.val, <<"W","S","L","2">>)
                \/ Includes(procVersion.val, <<"m","i","c","r","o","s","o","f","t","-","s","t","a","n","d","a","r","d","-","W","S","L","2">>)
            THEN Def(2)
        ELSE IF Includes(procVersion.val, <<"M","i","c","r","o","s","o","f","t">>) \/ Includes(procVersion.val, <<"W","S","L">>)
            THEN IF KernelMatch(procVersion.val).def
                    /\ ParseInt(KernelMatch(procVersion.val).val) >= 5
                 THEN Def(2) ELSE Def(1)
        ELSE Undefined

RECURSIVE SplitLines(_)
\* the lines of a text, as the 'm' flag of a regular expression sees them
SplitLines(s) ==
    IF ~InSeq("\n", s) THEN <<s>>
    ELSE LET i == CHOOSE i \in 1..Len(s) : s[i] = "\n" /\ \A j \in 1..(i - 1) : s[j] # "\n"
         IN  <<SubSeq(s, 1, i - 1)>> \o SplitLines(SubSeq(s, i + 1, Len(s)))

\* the lazy group (.+?) followed by "?$ : the shortest non-empty prefix of x
\* that leaves nothing or one closing quote
NameCapture(x) ==
    IF x = <<>> THEN Undefined
    ELSE IF Len(x) >= 2 /\ x[Len(x)] = "\"" THEN Def(SubSeq(x, 1, Len(x) - 1))
    ELSE Def(x)

\* /^NAME="?(.+?)"?$/ on one line
NameMatchLine(line) ==
    IF ~StartsWith(line, <<"N","A","M","E","=">>) THEN Undefined
    ELSE LET r == SubSeq(line, 6, Len(line))
         IN  IF r # <<>> /\ r[1] = "\"" /\ NameCapture(Tail(r)).def
             THEN NameCapture(Tail(r))
             ELSE NameCapture(r)

NameMatch(text) ==
    LET lines == SplitLines(text)
    IN  IF \E i \in 1..Len(lines) : NameMatchLine(lines[i]).def
        THEN NameMatchLine(lines[CHOOSE i \in 1..Len(lines) :
                /\ NameMatchLine(lines[i]).def
                /\ \A j \in 1..(i - 1) : ~NameMatchLine(lines[j]).def])
        ELSE Undefined

getWSLDistro(e) ==
    IF Truthy(getEnv(e, "WSL_DISTRO_NAME")) THEN getEnv(e, "WSL_DISTRO_NAME")
    ELSE LET osRelease == readFile(e, "/etc/os-release")
         IN  IF Truthy(osRelease) THEN NameMatch(osRelease.val) ELSE Undefined

ContentIncludes(e, path, t) ==
    Truthy(readFile(e, path)) /\ Includes(readFile(e, path).val, t)

detectDocker(e) ==
    \/ fileExists(e, "/.dockerenv") \/ fileExists(e, "/.dockerinit")
    \/ ContentIncludes(e, "/proc/self/cgroup", <<"d","o","c","k","e","r">>)
    \/ ContentIncludes(e, "/proc/self/cgroup", <<"c","o","n","t","a","i","n","e","r","d">>)
    \/ ContentIncludes(e, "/proc/1/cgroup", <<"d","o","c","k","e","r">>)
    \/ ContentIncludes(e, "/proc/1/cgroup", <<"c","o","n","t","a","i","n","e","r","d">>)
    \/ ContentIncludes(e, "/proc/self/mountinfo", <<"d","o","c","k","e","r">>)

NotWSL == [isWSL |-> FALSE, version |-> Undefined, distro |-> Undefined]

detectWSL(e) ==
    IF e.platform = "win32" THEN NotWSL
    ELSE IF Truthy(getEnv(e, "WSL_DISTRO_NAME"))
        THEN [isWSL |-> TRUE, version |-> getWSLVersion(e),
              distro |-> getEnv(e, "WSL_DISTRO_NAME")]
    ELSE IF \/ /\ Truthy(readFile(e, "/proc/version"))
               /\ Includes(ToLowerCase(readFile(e, "/proc/version").val),
                           ToLowerCase(<<"M","i","c","r","o","s","o","f","t">>))
            \/ fileExists(e, "/proc/sys/fs/binfmt_misc/WSLInterop")
            \/ isDirectory(e, "/run/WSL")
            \/ hasEnv(e, "WSLENV") \/ hasEnv(e, "WSL_INTEROP")
        THEN [isWSL |-> TRUE, version |-> getWSLVersion(e), distro |-> getWSLDistro(e)]
    ELSE NotWSL

\* /^[a-z0-9]+-[a-z0-9]+-[a-z0-9]+(-[a-z0-9]+)*$/ : three or more non-empty
\* runs of lower-case letters and digits joined by single dashes
HostnameMatches(h) ==
    /\ h # <<>>
    /\ \A i \in 1..Len(h) : h[i] = "-" \/ InSeq(h[i], LowerChars) \/ IsDigit(h[i])
    /\ h[1] # "-" /\ h[Len(h)] # "-"
    /\ \A i \in 1..(Len(h) - 1) : ~(h[i] = "-" /\ h[i + 1] = "-")
    /\ Cardinality({i \in 1..Len(h) : h[i] = "-"}) >= 2

detectKubernetes(e) ==
    \/ isDirectory(e, "/var/run/secrets/kubernetes.io")
    \/ hasEnv(e, "KUBERNETES_SERVICE_HOST") \/ hasEnv(e, "KUBERNETES_PORT")
    \/ /\ HostnameMatches(e.hostname)
       /\ fileExists(e, "/var/run/secrets/kubernetes.io/serviceaccount/token")

containerTypeMutantWslFirst(isDocker, isWSL, isKubernetes) ==
    IF isWSL THEN Def("wsl")
    ELSE IF isDocker THEN Def("docker")
    ELSE IF isKubernetes THEN Def("kubernetes")
    ELSE Undefined

\* the if / else-if chain that picks containerType
containerType(isDocker, isWSL, isKubernetes) ==
    IF isDocker THEN Def("docker")
    ELSE IF isWSL THEN Def("wsl")
    ELSE IF isKubernetes THEN Def("kubernetes")
    ELSE Undefined

ContainerPerformDetection(e) ==
    LET isDocker == detectDocker(e)
        wslInfo == detectWSL(e)
        isKubernetes == detectKubernetes(e)
    IN  [isContainer |-> isDocker \/ wslInfo.isWSL \/ isKubernetes,
         isDocker |-> isDocker,
         isWSL |-> wslInfo.isWSL,
         isKubernetes |-> isKubernetes,
         containerType |-> containerType(isDocker, wslInfo.isWSL, isKubernetes),
         wslVersion |-> wslInfo.version,
         wslDistro |-> wslInfo.distro]

-----------------------------------------------------------------------------
(* NodeDetector and EnvironmentModeDetector (detectors/node.ts) *)

RECURSIVE Split(_, _)
\* String.prototype.split on a one-character separator
Split(s, sep) ==
    IF ~InSeq(sep, s) THEN <<s>>
    ELSE LET i == CHOOSE i \in 1..Len(s) : s[i] = sep /\ \A j \in 1..(i - 1) : s[j] # sep
         IN  <<SubSeq(s, 1, i - 1)>> \o Split(SubSeq(s, i + 1, Len(s)), sep)

\* parseInt(v, 10) || 0 : the leading run of digits, 0 when there is none
ParseIntOrZero(v) ==
    IF v # <<>> /\ IsDigit(v[1]) THEN ParseInt(SubSeq(v, 1, RunEnd(v, 1))) ELSE 0

\* parseNodeVersion of utils/process.ts
parseNodeVersion(e) ==
    LET parts == Split(Tail(e.nodeVersion), ".")
        Part(i) == IF i <= Len(parts) THEN ParseIntOrZero(parts[i]) ELSE 0
    IN  [version |-> e.nodeVersion, major |-> Part(1), minor |-> Part(2), patch |-> Part(3)]

\* NodeDetector.performDetection has no try block around os.arch() and
\* os.platform()
NodeThrows(e) == e.osThrows \in {"arch", "platform"}

NodePerformDetection(e) ==
    LET v == parseNodeVersion(e)
    IN  [version |-> v.version, major |-> v.major, minor |-> v.minor, patch |-> v.patch,
         arch |-> "os-arch", platform |-> e.platform]

ModePerformDetection(e) ==
    LET nodeEnv == IF getEnv(e, "NODE_ENV").def
                   THEN Def(ToLowerCase(getEnv(e, "NODE_ENV").val))
                   ELSE Undefined
    IN  IF nodeEnv = Def(<<"p","r","o","d","u","c","t","i","o","n">>) THEN "production"
        ELSE IF nodeEnv = Def(<<"d","e","v","e","l","o","p","m","e","n","t">>) THEN "development"
        ELSE IF nodeEnv = Def(<<"t","e","s","t">>) THEN "test"
        ELSE IF nodeEnv = Def(<<"s","t","a","g","i","n","g">>) THEN "staging"
        ELSE "development"

-----------------------------------------------------------------------------
(* Plugin system (src/plugins/manager.ts, src/plugins/base.ts).  A          *)
(* JavaScript Map is the sequence of its entries in insertion order.        *)

MapHas(m, k) == \E i \in 1..Len(m) : m[i].key = k

MapGet(m, k) ==
    IF MapHas(m, k) THEN Def(m[CHOOSE i \in 1..Len(m) : m[i].key = k].value)
    ELSE Undefined

\* an existing key keeps its place, a new key goes last
MapSet(m, k, v) ==
    IF MapHas(m, k)
    THEN [i \in 1..Len(m) |-> IF m[i].key = k THEN [key |-> k, value |-> v] ELSE m[i]]
    ELSE Append(m, [key |-> k, value |-> v])

MapDelete(m, k) ==
    LET Keep(x) == x.key # k
    IN  SelectSeq(m, Keep)

MapValues(m) == [i \in 1..Len(m) |-> m[i].value]

\* getInstance() on first use: no plugin, and a context with no detector
\* and no event handler
EmptyPM == [plugins |-> <<>>, detectors |-> <<>>, eventHandlers |-> <<>>]

\* PluginContextImpl.registerDetector / unregisterDetector / getDetector
registerDetector(ds, name, d) == MapSet(ds, name, d)

unregisterDetector(ds, name) == MapDelete(ds, name)

getDetector(ds, name) == MapGet(ds, name)

\* PluginManagerImpl.get / getAll
PMGet(m, pluginName) == MapGet(m.plugins, pluginName)

PMGetAll(m) == MapValues(m.plugins)

-----------------------------------------------------------------------------
(* Detector contract (core/detector.ts): BaseDetector over the singleton   *)
(* Cache.  Dets are detector instances as their constructors leave them;   *)
(* two instances with the same name share one cache key, as the detectors  *)
(* of two EnvironmentDetector facades do.                                  *)

DetOptions ==
    [osSync   |-> [name |-> "os", cache |-> TRUE,  cacheTimeout |-> 1, async |-> FALSE],
     osAsync  |-> [name |-> "os", cache |-> TRUE,  cacheTimeout |-> 2, async |-> TRUE],
     ciSync   |-> [name |-> "ci", cache |-> TRUE,  cacheTimeout |-> 1, async |-> FALSE],
     ciPlain  |-> [name |-> "ci", cache |-> FALSE, cacheTimeout |-> 1, async |-> FALSE],
     ciAsync  |-> [name |-> "ci", cache |-> FALSE, cacheTimeout |-> 1, async |-> TRUE]]

Dets == DOMAIN DetOptions

getCacheKeyMutantShared(name) == "detector:os"

getCacheKey(name) == "detector:" \o name

\* performDetection() of the detector called `name`
PerformDetection(name, e) ==
    CASE name = "os" -> OSPerformDetection(e)
      [] name = "ci" -> CIPerformDetection(e)
      [] name = "container" -> ContainerPerformDetection(e)
      [] name = "cloud" -> CloudPerformDetection(e).val
      [] name = "node" -> NodePerformDetection(e)
      [] name = "privileges" -> PrivPerformDetection(e)
      [] name = "mode" -> ModePerformDetection(e)

\* performDetection() of the detector called `name` throws
PerformThrows(name, e) ==
    \/ name = "cloud" /\ CloudPerformDetection(e).threw
    \/ name = "node" /\ NodeThrows(e)
    \/ name = "privileges" /\ e.osThrows = "platform"

\* the cache lookup at the head of detectSync / detectAsync
DetectCached(d, s, en, t) ==
    IF DetOptions[d].cache
    THEN CacheGetRet(s, en, getCacheKey(DetOptions[d].name), t)
    ELSE Undefined

DetectLookupStore(d, s, en, t) ==
    IF DetOptions[d].cache
    THEN CacheGetStore(s, en, getCacheKey(DetOptions[d].name), t)
    ELSE s

DetectWriteStoreMutantKeepFirst(d, s, en, result, t) ==
    IF DetOptions[d].cache /\ getCacheKey(DetOptions[d].name) \notin DOMAIN s
    THEN CacheSetStore(s, en, getCacheKey(DetOptions[d].name), result,
                       DetOptions[d].cacheTimeout, t)
    ELSE s

\* the cache write at the tail of detectSync / detectAsync
DetectWriteStore(d, s, en, result, t) ==
    IF DetOptions[d].cache
    THEN CacheSetStore(s, en, getCacheKey(DetOptions[d].name), result,
                       DetOptions[d].cacheTimeout, t)
    ELSE s

ResetStoreMutantOnlyWhenCaching(d, s) ==
    IF DetOptions[d].cache
    THEN CacheDeleteStore(s, getCacheKey(DetOptions[d].name))
    ELSE s

ResetStore(d, s) == CacheDeleteStore(s, getCacheKey(DetOptions[d].name))

\* the record of one operation: its name, the detector or key it was called
\* on, the value passed, the value returned and a count (detection routines
\* invoked, entries evicted, or the ttl passed to set)
Op(op, arg, val, ret, n) == [op |-> op, arg |-> arg, val |-> val, ret |-> ret, n |-> n]

NoOp == Op("init", "-", Undefined, Undefined, 0)

\* detect() with async: false
DetectSync(d) ==
    /\ ~DetOptions[d].async
    /\ LET cached == DetectCached(d, store, enabled, now)
           looked == DetectLookupStore(d, store, enabled, now)
           result == PerformDetection(DetOptions[d].name, env)
       IN  IF cached # Undefined
           THEN /\ store' = looked
                /\ last' = Op("detect", d, Undefined, cached, 0)
           ELSE /\ store' = DetectWriteStore(d, looked, enabled, result, now)
                /\ last' = Op("detect", d, Undefined, result, 1)
    /\ fresh' = fresh \ {DetOptions[d].name}
    /\ UNCHANGED <<enabled, now, env, inflight, pm>>

\* detect() with async: true, up to the await: the default
\* performAsyncDetection has already run performDetection by then
DetectAsyncStart(d) ==
    /\ DetOptions[d].async
    /\ LET cached == DetectCached(d, store, enabled, now)
           looked == DetectLookupStore(d, store, enabled, now)
           result == PerformDetection(DetOptions[d].name, env)
       IN  /\ store' = looked
           /\ IF cached # Undefined
              THEN /\ inflight' = inflight
                   /\ last' = Op("detectAsync", d, Undefined, cached, 0)
              ELSE /\ BagCardinality(inflight) < MaxInflight
                   /\ inflight' = inflight (+) SetToBag({[det |-> d, result |-> result]})
                   /\ last' = Op("detectAsync", d, Undefined, Undefined, 1)
    /\ fresh' = fresh \ {DetOptions[d].name}
    /\ UNCHANGED <<enabled, now, env, pm>>

\* the continuation of detectAsync after the await
DetectAsyncFinish(c) ==
    /\ BagIn(c, inflight)
    /\ inflight' = inflight (-) SetToBag({c})
    /\ store' = DetectWriteStore(c.det, store, enabled, c.result, now)
    /\ last' = Op("resolve", c.det, Undefined, c.result, 0)
    /\ fresh' = fresh \ {DetOptions[c.det].name}
    /\ UNCHANGED <<enabled, now, env, pm>>

Reset(d) ==
    /\ store' = ResetStore(d, store)
    /\ fresh' = fresh \cup {DetOptions[d].name}
    /\ last' = Op("reset", d, Undefined, Undefined,
                  CacheSize(store) - CacheSize(ResetStore(d, store)))
    /\ UNCHANGED <<enabled, now, env, inflight, pm>>

\* EnvironmentDetector.clearCache / enableCache / disableCache
ClearCache ==
    /\ store' = CacheClearStore(store)
    /\ last' = Op("clear", "-", Undefined, Undefined, 0)
    /\ UNCHANGED <<enabled, now, env, inflight, fresh, pm>>

EnableCache ==
    /\ enabled' = TRUE
    /\ last' = Op("enable", "-", Undefined, Undefined, 0)
    /\ UNCHANGED <<store, now, env, inflight, fresh, pm>>

DisableCache ==
    /\ enabled' = FALSE
    /\ store' = CacheDisableStore(store)
    /\ last' = Op("disable", "-", Undefined, Undefined, 0)
    /\ UNCHANGED <<now, env, inflight, fresh, pm>>

\* the clock read by Date.now() advances
Tick ==
    /\ now < MaxTime
    /\ now' = now + 1
    /\ last' = Op("tick", "-", Undefined, Undefined, 0)
    /\ UNCHANGED <<store, enabled, env, inflight, fresh, pm>>

\* the environments the detectors of Spec run in
MainEnvs ==
    {BaseEnv,
     [BaseEnv EXCEPT !.platform = "darwin", !.vars = "CI" :> <<"t","r","u","e">>]}

\* the process moves (or is reconfigured) between two detections
EnvChange ==
    /\ env' \in MainEnvs \ {env}
    /\ last' = Op("env", "-", Undefined, Undefined, 0)
    /\ UNCHANGED <<store, enabled, now, inflight, fresh, pm>>

Init ==
    /\ store = EmptyStore
    /\ enabled = TRUE
    /\ now = 0
    /\ env \in MainEnvs
    /\ inflight = EmptyBag
    /\ fresh = {}
    /\ last = NoOp
    /\ pm = EmptyPM

Next ==
    \/ \E d \in Dets : DetectSync(d)
    \/ \E d \in Dets : DetectAsyncStart(d)
    \/ \E c \in BagToSet(inflight) : DetectAsyncFinish(c)
    \/ \E d \in Dets : Reset(d)
    \/ ClearCache
    \/ EnableCache
    \/ DisableCache
    \/ Tick
    \/ EnvChange

Spec == Init /\ [][Next]_vars

-----------------------------------------------------------------------------
(* The Cache API called directly (SpecCache) *)

MaxTtl == 1

CacheKeys == {"k1", "k2"}

CacheValues == {[raw |-> "v1"], [raw |-> "v2"]}

Ttls == 0..MaxTtl

CGet(k) ==
    /\ store' = CacheGetStore(store, enabled, k, now)
    /\ last' = Op("get", k, Undefined, CacheGetRet(store, enabled, k, now),
                  CacheSize(store) - CacheSize(CacheGetStore(store, enabled, k, now)))
    /\ UNCHANGED <<enabled, now, env, inflight, fresh, pm>>

CSet(k, v, ttl) ==
    /\ store' = CacheSetStore(store, enabled, k, v, ttl, now)
    /\ last' = Op("set", k, v, Undefined, ttl)
    /\ UNCHANGED <<enabled, now, env, inflight, fresh, pm>>

CHas(k) ==
    /\ store' = CacheHasStore(store, enabled, k, now)
    /\ last' = Op("has", k, Undefined, Def(CacheHasRet(store, enabled, k, now)),
                  CacheSize(store) - CacheSize(CacheHasStore(store, enabled, k, now)))
    /\ UNCHANGED <<enabled, now, env, inflight, fresh, pm>>

CDelete(k) ==
    /\ store' = CacheDeleteStore(store, k)
    /\ last' = Op("delete", k, Undefined, Def(CacheDeleteRet(store, k)), 0)
    /\ UNCHANGED <<enabled, now, env, inflight, fresh, pm>>

CSize ==
    /\ last' = Op("size", "-", Undefined, Def(CacheSize(store)), 0)
    /\ UNCHANGED <<store, enabled, now, env, inflight, fresh, pm>>

InitCache ==
    /\ store = EmptyStore
    /\ enabled = TRUE
    /\ now = 0
    /\ env = BaseEnv
    /\ inflight = EmptyBag
    /\ fresh = {}
    /\ last = NoOp
    /\ pm = EmptyPM

NextCache ==
    \/ \E k \in CacheKeys : CGet(k)
    \/ \E k \in CacheKeys, v \in CacheValues, ttl \in Ttls : CSet(k, v, ttl)
    \/ \E k \in CacheKeys : CHas(k)
    \/ \E k \in CacheKeys : CDelete(k)
    \/ CSize
    \/ ClearCache
    \/ EnableCache
    \/ DisableCache
    \/ Tick

SpecCache == InitCache /\ [][NextCache]_vars

-----------------------------------------------------------------------------
(* One performDetection() over every environment of a bounded family       *)

\* process.env with at most n of the names set, each to one of the values
VarMaps(names, values, n) ==
    UNION {[S -> values] : S \in {T \in SUBSET names : Cardinality(T) <= n}}

Detected(name, outcome) ==
    /\ last' = Op("performDetection", name, Undefined, outcome, 1)
    /\ UNCHANGED <<store, enabled, now, env, inflight, fresh, pm>>

InitPure(envs) ==
    /\ store = EmptyStore
    /\ enabled = TRUE
    /\ now = 0
    /\ env \in envs
    /\ inflight = EmptyBag
    /\ fresh = {}
    /\ last = NoOp
    /\ pm = EmptyPM

OSEnvs ==
    {[BaseEnv EXCEPT !.platform = p, !.osThrows = t, !.hasOsVersion = v] :
        p \in {"win32", "darwin", "linux", "freebsd", "openbsd", "sunos", "aix", "android"},
        t \in {"none", "platform", "release", "version", "arch"},
        v \in BOOLEAN}

DetectOS == Detected("os", OSPerformDetection(env))

SpecOS == InitPure(OSEnvs) /\ [][DetectOS]_vars

CIVarNames ==
    CI_PROVIDER_ENV_VARS \cup
    {"CI", "CONTINUOUS_INTEGRATION", "BUILD_NUMBER", "CI_NAME",
     "TRAVIS_PULL_REQUEST", "GITHUB_EVENT_NAME", "PR_NUMBER", "CODEBUILD_WEBHOOK_HEAD_REF"}

CIVarValues ==
    {<<"t","r","u","e">>, <<"T","R","U","E">>, <<"1">>, <<"f","a","l","s","e">>, <<>>, <<"1","2","3">>, <<"p","u","l","l","_","r","e","q","u","e","s","t">>, <<"r","e","f","s","/","p","u","l","l","/","7">>}

CIEnvs == {[BaseEnv EXCEPT !.vars = v] : v \in VarMaps(CIVarNames, CIVarValues, MaxSet)}

DetectCI == Detected("ci", CIPerformDetection(env))

SpecCI == InitPure(CIEnvs) /\ [][DetectCI]_vars

CloudVarNames ==
    {"AWS_LAMBDA_FUNCTION_NAME", "AWS_EXECUTION_ENV", "FUNCTION_NAME", "K_SERVICE",
     "WEBSITE_SITE_NAME", "FUNCTIONS_EXTENSION_VERSION", "VERCEL", "VERCEL_ENV",
     "NETLIFY", "NETLIFY_BUILD_BASE", "CF_WORKER", "VERCEL_FUNCTION",
     "NETLIFY_FUNCTION_NAME", "NETLIFY_DEV", "_HANDLER",
     "ECS_CONTAINER_METADATA_URI", "AWS_REGION"}

CloudVarValues == {<<"x">>, <<>>}

CloudEnvs ==
    {[BaseEnv EXCEPT !.vars = v, !.files = f, !.caches = c, !.cfGlobal = g[1], !.cfThrows = g[2]] :
        v \in VarMaps(CloudVarNames, CloudVarValues, MaxSet),
        f \in SUBSET {"/sys/hypervisor/uuid"},
        c \in {"absent", "object", "default", "primitive"},
        g \in {<<FALSE, FALSE>>, <<TRUE, FALSE>>, <<FALSE, TRUE>>}}

DetectCloud == Detected("cloud", CloudPerformDetection(env))

SpecCloud == InitPure(CloudEnvs) /\ [][DetectCloud]_vars

PrivCommands ==
    {"net session 2>nul", "whoami /groups", "dir \"%SystemRoot%\\System32\\config\" 2>nul",
     "groups", "sudo -n true 2>/dev/null"}

PrivOutputs == {<<>>, <<"s","t","a","f","f">>, <<"s","t","a","f","f"," ","S","u","d","o">>, <<" ", "\n">>}

\* process.getuid exists exactly on the platforms other than Windows
PrivEnvs ==
    {e \in {[BaseEnv EXCEPT !.platform = p, !.uid = u, !.gid = u, !.cmds = c] :
                p \in {"win32", "darwin", "linux", "freebsd"},
                u \in {Undefined, Def(0), Def(1000)},
                c \in VarMaps(PrivCommands, PrivOutputs, Cardinality(PrivCommands))} :
        (e.platform = "win32") <=> (e.uid = Undefined)}

DetectPriv == Detected("privileges", PrivPerformDetection(env))

SpecPriv == InitPure(PrivEnvs) /\ [][DetectPriv]_vars

ContainerVarNames == {"WSL_DISTRO_NAME", "WSLENV", "KUBERNETES_SERVICE_HOST"}

ContainerVarValues == {<<"U","b","u","n","t","u">>, <<>>}

CgroupTexts == {NoVars, "/proc/self/cgroup" :> <<"1",":","c","p","u",":","/","d","o","c","k","e","r","/","a","b","1","2">>}

ProcVersionTexts ==
    {NoVars,
     "/proc/version" :> <<"L","i","n","u","x"," ","v","e","r","s","i","o","n"," ","5",".","1","5",".","0","-","9","1","-","g","e","n","e","r","i","c">>,
     "/proc/version" :> <<"L","i","n","u","x"," ","v","e","r","s","i","o","n"," ","4",".","4",".","0","-","1","9","0","4","1","-","M","i","c","r","o","s","o","f","t">>,
     "/proc/version" :> <<"L","i","n","u","x"," ","v","e","r","s","i","o","n"," ","5",".","1","5",".","9","0",".","1","-","m","i","c","r","o","s","o","f","t","-","s","t","a","n","d","a","r","d","-","W","S","L","2">>,
     "/proc/version" :> <<"L","i","n","u","x"," ","v","e","r","s","i","o","n"," ","5",".","1","5",".","9","0",".","1","-","m","i","c","r","o","s","o","f","t","-","s","t","a","n","d","a","r","d">>,
     "/proc/version" :> <<"L","i","n","u","x"," ","M","i","c","r","o","s","o","f","t">>}

OsReleaseTexts ==
    {NoVars, "/etc/os-release" :> (<<"P","R","E","T","T","Y","_","N","A","M","E","=","\"","D","e","b","i","a","n"," ","1","2","\"">> \o <<"\n">> \o <<"N","A","M","E","=","\"","D","e","b","i","a","n","\"">>)}

ContainerEnvs ==
    {[BaseEnv EXCEPT !.platform = p, !.files = f, !.dirs = d, !.vars = v,
                     !.content = c[1] @@ c[2] @@ c[3], !.hostname = h] :
        p \in {"linux", "win32"},
        f \in SUBSET {"/.dockerenv", "/proc/sys/fs/binfmt_misc/WSLInterop",
                      "/var/run/secrets/kubernetes.io/serviceaccount/token"},
        d \in SUBSET {"/var/run/secrets/kubernetes.io", "/run/WSL"},
        v \in VarMaps(ContainerVarNames, ContainerVarValues, MaxSet),
        c \in CgroupTexts \X ProcVersionTexts \X OsReleaseTexts,
        h \in {<<"h","o","s","t">>, <<"w","e","b","-","7","f","9","c","4","-","x","2","k","8","p">>}}

DetectContainer == Detected("container", ContainerPerformDetection(env))

SpecContainer == InitPure(ContainerEnvs) /\ [][DetectContainer]_vars

-----------------------------------------------------------------------------
(* EnvironmentDetector, the facade (src/index.ts).  A facade is the options *)
(* its constructor hands to each of its seven detectors, merged with the    *)
(* defaults of BaseDetector.                                                *)

DEFAULT_CACHE_TIMEOUT == 60000

FacadeOptions ==
    [fDefault |-> [cache |-> TRUE,  cacheTimeout |-> DEFAULT_CACHE_TIMEOUT, async |-> FALSE],
     fNoCache |-> [cache |-> FALSE, cacheTimeout |-> DEFAULT_CACHE_TIMEOUT, async |-> FALSE],
     fAsync   |-> [cache |-> TRUE,  cacheTimeout |-> DEFAULT_CACHE_TIMEOUT, async |-> TRUE]]

Facades == DOMAIN FacadeOptions

\* the detectors in the order getEnvironmentInfo calls them
FacadeDetectors == <<"os", "container", "ci", "cloud", "node", "privileges", "mode">>

\* the cache lookup at the head of detectSync / detectAsync found a live entry
LookupHit(o, name, s, en, t) ==
    /\ o.cache /\ en
    /\ getCacheKey(name) \in DOMAIN s
    /\ ~Expired(s[getCacheKey(name)], t)

LookupStore(o, name, s, en, t) ==
    IF o.cache THEN CacheGetStore(s, en, getCacheKey(name), t) ELSE s

\* the cache write at the tail of detectSync / detectAsync
WriteStore(o, name, s, en, result, t) ==
    IF o.cache THEN CacheSetStore(s, en, getCacheKey(name), result, o.cacheTimeout, t)
    ELSE s

\* what a property of the snapshot holds: a detection result, or the promise
\* of one
Value(v) == [kind |-> "value", v |-> v]
PromiseOf(outcome) == [kind |-> "promise", v |-> outcome]

Fulfilled(v) == [rejected |-> FALSE, v |-> v]
RejectedPromise == [rejected |-> TRUE]

NoInfo == [x \in {} |-> Undefined]

\* performDetection() of every detector in environment e: whether it throws
\* and, when it does not, what it returns
Outcomes(e) ==
    [name \in {"os", "container", "ci", "cloud", "node", "privileges", "mode"} |->
        IF PerformThrows(name, e) THEN [threw |-> TRUE]
        ELSE [threw |-> FALSE, val |-> PerformDetection(name, e)]]

\* detectSync() of the detector called name; out is what performDetection
\* does in the current environment
DetectOne(o, name, s, en, t, out) ==
    IF LookupHit(o, name, s, en, t)
    THEN [store |-> s, threw |-> FALSE, info |-> name :> Value(s[getCacheKey(name)].value), n |-> 0]
    ELSE IF out[name].threw
    THEN [store |-> LookupStore(o, name, s, en, t), threw |-> TRUE, info |-> NoInfo, n |-> 1]
    ELSE [store |-> WriteStore(o, name, LookupStore(o, name, s, en, t), en,
                               out[name].val, t),
          threw |-> FALSE, info |-> name :> Value(out[name].val), n |-> 1]

\* the run so far, after detect() on the detector called name
StepSync(o, name, acc, en, t, out) ==
    LET r == DetectOne(o, name, acc.store, en, t, out)
    IN  [store |-> r.store, threw |-> r.threw,
         info |-> acc.info @@ r.info, n |-> acc.n + r.n]

RECURSIVE RunSync(_, _, _, _, _, _)
\* detect() on each detector of names in turn, in synchronous mode; a throw
\* ends the run
RunSync(o, names, acc, en, t, out) ==
    IF names = <<>> \/ acc.threw THEN acc
    ELSE CHOOSE r \in {RunSync(o, Tail(names), a, en, t, out) :
                          a \in {StepSync(o, Head(names), acc, en, t, out)}} : TRUE

\* detectAsync() of the detector called name, up to its await: the promise
\* it returns and the cache write it still has to make
StartOne(o, name, s, en, t, out) ==
    IF LookupHit(o, name, s, en, t)
    THEN [store |-> s, promises |-> name :> Fulfilled(s[getCacheKey(name)].value),
          writes |-> NoInfo, n |-> 0]
    ELSE IF out[name].threw
    THEN [store |-> LookupStore(o, name, s, en, t), promises |-> name :> RejectedPromise,
          writes |-> NoInfo, n |-> 1]
    ELSE [store |-> LookupStore(o, name, s, en, t),
          promises |-> name :> Fulfilled(out[name].val),
          writes |-> name :> out[name].val, n |-> 1]

\* the run so far, after detect() on the detector called name
StepAsync(o, name, acc, en, t, out) ==
    LET r == StartOne(o, name, acc.store, en, t, out)
    IN  [store |-> r.store, promises |-> acc.promises @@ r.promises,
         writes |-> acc.writes @@ r.writes, n |-> acc.n + r.n]

RECURSIVE RunAsync(_, _, _, _, _, _)
\* detect() on each detector of names in turn, in asynchronous mode
RunAsync(o, names, acc, en, t, out) ==
    IF names = <<>> THEN acc
    ELSE CHOOSE r \in {RunAsync(o, Tail(names), a, en, t, out) :
                          a \in {StepAsync(o, Head(names), acc, en, t, out)}} : TRUE

SyncFrom(s) == [store |-> s, threw |-> FALSE, info |-> NoInfo, n |-> 0]

AsyncFrom(s) == [store |-> s, promises |-> NoInfo, writes |-> NoInfo, n |-> 0]

\* what a call of the facade gives back: it threw (or its promise rejected),
\* or a value
Threw == [threw |-> TRUE]
Returned(v) == [threw |-> FALSE, val |-> v]

\* detect() on each detector of names, in the mode the options ask for: the
\* store it leaves, what each call returned, whether one threw, and the
\* cache writes still to come
Run(o, names, s, en, t, e) ==
    CHOOSE run \in
        {IF o.async
         THEN LET r == RunAsync(o, names, AsyncFrom(s), en, t, out)
              IN  [store |-> r.store, threw |-> FALSE, writes |-> r.writes, n |-> r.n,
                   fields |-> [x \in DOMAIN r.promises |-> PromiseOf(r.promises[x])]]
         ELSE LET r == RunSync(o, names, SyncFrom(s), en, t, out)
              IN  [store |-> r.store, threw |-> r.threw, writes |-> NoInfo, n |-> r.n,
                   fields |-> r.info] :
         out \in {Outcomes(e)}} : TRUE

\* what getEnvironmentInfo() returns
InfoRet(r) == IF r.threw THEN Threw ELSE Returned(r.fields)

\* Promise.all unwraps a promise and passes a plain value through
Awaited(field) == IF field.kind = "promise" THEN Value(field.v.v) ELSE field

\* what the promise of getEnvironmentInfoAsync() settles to
InfoAsyncRet(r) ==
    IF r.threw \/ \E x \in DOMAIN r.fields :
                    r.fields[x].kind = "promise" /\ r.fields[x].v.rejected
    THEN Threw
    ELSE Returned([x \in DOMAIN r.fields |-> Awaited(r.fields[x])])

RECURSIVE ApplyWrites(_, _, _, _, _, _)
\* the tails of the suspended detectAsync() calls, in the order they began
ApplyWrites(o, names, writes, s, en, t) ==
    IF names = <<>> THEN s
    ELSE CHOOSE r \in {ApplyWrites(o, Tail(names), writes, s2, en, t) :
                          s2 \in {IF Head(names) \in DOMAIN writes
                                  THEN WriteStore(o, Head(names), s, en, writes[Head(names)], t)
                                  ELSE s}} : TRUE

\* the detector behind each convenience getter; the getter reads the
\* property of its own name
AccessorDetector ==
    [isWindows |-> "os", isMacOS |-> "os", isLinux |-> "os",
     isWSL |-> "container", isDocker |-> "container", isKubernetes |-> "container",
     isContainer |-> "container", isCI |-> "ci", isCloud |-> "cloud",
     isServerless |-> "cloud", isElevated |-> "privileges", isRoot |-> "privileges",
     isAdmin |-> "privileges"]

Accessors == DOMAIN AccessorDetector

\* property p of what detect() returned: a promise has none of them
Prop(field, p) == IF field.kind = "value" THEN Def(field.v[p]) ELSE Undefined

\* what the getter a returns
AccessorRet(r, a) ==
    IF r.threw THEN Threw ELSE Returned(Prop(r.fields[AccessorDetector[a]], a))

RECURSIVE Join(_, _)
\* Array.prototype.join
Join(parts, sep) ==
    IF parts = <<>> THEN ""
    ELSE IF Len(parts) = 1 THEN parts[1]
    ELSE parts[1] \o sep \o Join(Tail(parts), sep)

\* the parts getEnvironmentSummary pushes; join() writes undefined as ""
SummaryParts(info) ==
    <<IF Prop(info["os"], "type").def THEN Prop(info["os"], "type").val ELSE "">>
    \o (IF Prop(info["container"], "isContainer") = Def(TRUE)
        THEN <<IF info["container"].v.containerType.def
               THEN info["container"].v.containerType.val ELSE "container">>
        ELSE <<>>)
    \o (IF Prop(info["ci"], "isCI") = Def(TRUE) THEN <<"ci">> ELSE <<>>)
    \o (IF Prop(info["cloud"], "isCloud") = Def(TRUE) THEN <<"cloud">> ELSE <<>>)
    \o (IF Prop(info["privileges"], "isElevated") = Def(TRUE) THEN <<"elevated">> ELSE <<>>)

\* what getEnvironmentSummary() returns
SummaryRet(r) ==
    IF r.threw THEN Threw ELSE Returned(Join(SummaryParts(r.fields), "+"))

\* what a call of the facade was made on
FArg(f, a) == [facade |-> f, accessor |-> a]

\* one facade call, the first since the warm-up: ret is what it returns
FacadeCall(op, f, a, r, ret) ==
    /\ last = NoOp
    /\ store' = r.store
    /\ inflight' = IF r.writes = NoInfo THEN inflight
                   ELSE inflight (+) SetToBag({[op |-> "facade", facade |-> f,
                                                writes |-> r.writes]})
    /\ last' = Op(op, FArg(f, a), Undefined, ret, r.n)
    /\ UNCHANGED <<enabled, now, env, fresh, pm>>

GetEnvironmentInfo(f) ==
    \E r \in {Run(FacadeOptions[f], FacadeDetectors, store, enabled, now, env)} :
        FacadeCall("info", f, "-", r, InfoRet(r))

\* last.ret is what the returned promise settles to
GetEnvironmentInfoAsync(f) ==
    \E r \in {Run(FacadeOptions[f], FacadeDetectors, store, enabled, now, env)} :
        FacadeCall("infoAsync", f, "-", r, InfoAsyncRet(r))

AccessorCallsMutantAggregate(a) == FacadeDetectors

\* the detect() calls the getter a makes
AccessorCalls(a) == <<AccessorDetector[a]>>

Accessor(f, a) ==
    \E r \in {Run(FacadeOptions[f], AccessorCalls(a), store, enabled, now, env)} :
        FacadeCall("accessor", f, a, r, AccessorRet(r, a))

GetEnvironmentSummary(f) ==
    \E r \in {Run(FacadeOptions[f], FacadeDetectors, store, enabled, now, env)} :
        FacadeCall("summary", f, "-", r, SummaryRet(r))

\* the suspended detectAsync() calls of one facade call resume
FacadeSettle(c) ==
    /\ BagIn(c, inflight)
    /\ inflight' = inflight (-) SetToBag({c})
    /\ store' = ApplyWrites(FacadeOptions[c.facade], FacadeDetectors, c.writes,
                            store, enabled, now)
    /\ last' = Op("settled", FArg(c.facade, "-"), Undefined, Undefined, 0)
    /\ UNCHANGED <<enabled, now, env, fresh, pm>>

\* the environments the facades run in: a plain Linux user, root on Linux,
\* a Docker container in CI in the cloud run by a member of sudo, and a
\* runtime whose global `caches` is not an object
FacadeEnvs ==
    {BaseEnv,
     [BaseEnv EXCEPT !.uid = Def(0), !.gid = Def(0)],
     [BaseEnv EXCEPT !.files = {"/.dockerenv"},
                     !.vars = ("CI" :> <<"t","r","u","e">>)
                              @@ ("AWS_LAMBDA_FUNCTION_NAME" :> <<"f","n">>)
                              @@ ("NODE_ENV" :> <<"P","r","o","d","u","c","t","i","o","n">>),
                     !.cmds = "groups" :> <<"s","t","a","f","f"," ","s","u","d","o">>],
     [BaseEnv EXCEPT !.caches = "primitive"]}

\* the detect() calls made before the call under observation
WarmUps ==
    {<<>>, FacadeDetectors, <<"os">>, <<"container">>, <<"ci">>, <<"cloud">>,
     <<"privileges">>}

\* the cache as the default facade leaves it after the calls of w made in
\* environment e0
Warmed(w, e0) == Run(FacadeOptions.fDefault, w, EmptyStore, TRUE, 0, e0).store

\* the three facades have been constructed and the cache is either still
\* disabled, as the constructor of the facade with cache: false left it, or
\* has been enabled again and warmed up in an environment that may since
\* have changed
InitFacade ==
    /\ enabled \in BOOLEAN
    /\ env \in FacadeEnvs
    /\ store \in IF enabled THEN {Warmed(w, e0) : w \in WarmUps, e0 \in FacadeEnvs}
                 ELSE {EmptyStore}
    /\ now = 0
    /\ inflight = EmptyBag
    /\ fresh = {}
    /\ last = NoOp
    /\ pm = EmptyPM

NextFacade ==
    \/ \E f \in Facades : GetEnvironmentInfo(f)
    \/ \E f \in Facades : GetEnvironmentInfoAsync(f)
    \/ \E f \in Facades, a \in Accessors : Accessor(f, a)
    \/ \E f \in Facades : GetEnvironmentSummary(f)
    \/ \E c \in BagToSet(inflight) : FacadeSettle(c)

SpecFacade == InitFacade /\ [][NextFacade]_vars

-----------------------------------------------------------------------------
(* new EnvironmentDetector(options) next to detectors in use              *)
(* (SpecConstruct): the constructor builds seven detectors, which touches *)
(* no shared state, and then looks at options.cache.                      *)

\* the constructor of the facade
Construct(f) ==
    /\ IF FacadeOptions[f].cache = FALSE
       THEN /\ enabled' = FALSE
            /\ store' = CacheDisableStore(store)
       ELSE /\ enabled' = enabled
            /\ store' = store
    /\ last' = Op("construct", f, Undefined, Undefined, 0)
    /\ UNCHANGED <<now, env, inflight, fresh, pm>>

NextConstruct ==
    \/ \E f \in Facades : Construct(f)
    \/ \E d \in Dets : DetectSync(d)
    \/ Tick
    \/ EnvChange

SpecConstruct == Init /\ [][NextConstruct]_vars

-----------------------------------------------------------------------------
(* PluginContextImpl.on / off / emit (SpecEvents).  eventHandlers maps an   *)
(* event to the array of its handlers; the array is created by the first    *)
(* on() and from then on changed in place.  A handler is user code: it      *)
(* returns, throws, returns a promise that rejects, or (a one-shot          *)
(* listener) takes itself off the event and returns.                        *)

MaxHandlers == 3

Events == {"e1", "e2"}

HandlerTable ==
    [hPlain |-> "returns", hThrows |-> "throws", hRejects |-> "rejects", hOnce |-> "off"]

Handlers == DOMAIN HandlerTable

HandlersOf(eh, event) == IF MapHas(eh, event) THEN MapGet(eh, event).val ELSE <<>>

\* Array.prototype.indexOf, counted from 1; 0 when absent
IndexOf(arr, x) ==
    IF \E i \in 1..Len(arr) : arr[i] = x
    THEN CHOOSE i \in 1..Len(arr) : arr[i] = x /\ \A j \in 1..(i - 1) : arr[j] # x
    ELSE 0

\* Array.prototype.splice(index, 1)
Splice(arr, index) == SubSeq(arr, 1, index - 1) \o SubSeq(arr, index + 1, Len(arr))

on(eh, event, handler) == MapSet(eh, event, Append(HandlersOf(eh, event), handler))

off(eh, event, handler) ==
    IF ~MapHas(eh, event) THEN eh
    ELSE LET handlers == MapGet(eh, event).val
             index == IndexOf(handlers, handler)
         IN  IF index > 0 THEN MapSet(eh, event, Splice(handlers, index)) ELSE eh

\* what the call handler(data) does to the context
HandlerRun(eh, event, handler) ==
    IF HandlerTable[handler] = "off" THEN off(eh, event, handler) ELSE eh

\* the state of one emit(): the handlers map, the calls made so far, the
\* errors written to the console and the rejections still to be caught
EmitFrom(eh) == [eventHandlers |-> eh, calls |-> <<>>, logged |-> 0, rejected |-> 0]

EmitStep(acc, event, data, handler) ==
    [eventHandlers |-> HandlerRun(acc.eventHandlers, event, handler),
     calls |-> Append(acc.calls, [handler |-> handler, data |-> data]),
     logged |-> acc.logged + (IF HandlerTable[handler] = "throws" THEN 1 ELSE 0),
     rejected |-> acc.rejected + (IF HandlerTable[handler] = "rejects" THEN 1 ELSE 0)]

RECURSIVE EmitLoop(_, _, _, _)
\* for (const handler of handlers): the array iterator reads the live array
\* at position i
EmitLoop(acc, event, data, i) ==
    IF i > Len(HandlersOf(acc.eventHandlers, event)) THEN acc
    ELSE CHOOSE r \in {EmitLoop(a, event, data, i + 1) :
                          a \in {EmitStep(acc, event, data,
                                          HandlersOf(acc.eventHandlers, event)[i])}} : TRUE

emit(eh, event, data) ==
    IF MapHas(eh, event) THEN EmitLoop(EmitFrom(eh), event, data, 1) ELSE EmitFrom(eh)

RECURSIVE Registrations(_)
\* the number of registrations in all arrays
Registrations(eh) ==
    IF eh = <<>> THEN 0 ELSE Len(Head(eh).value) + Registrations(Tail(eh))

EArg(event, handler, data) == [event |-> event, handler |-> handler, data |-> data]

EventOn(event, handler) ==
    /\ Registrations(pm.eventHandlers) < MaxHandlers
    /\ pm' = [pm EXCEPT !.eventHandlers = on(@, event, handler)]
    /\ last' = Op("on", EArg(event, handler, Undefined), Undefined, Undefined, 0)
    /\ UNCHANGED <<store, enabled, now, env, inflight, fresh>>

EventOff(event, handler) ==
    /\ pm' = [pm EXCEPT !.eventHandlers = off(@, event, handler)]
    /\ last' = Op("off", EArg(event, handler, Undefined), Undefined, Undefined, 0)
    /\ UNCHANGED <<store, enabled, now, env, inflight, fresh>>

\* last.val is the sequence of handler calls, last.ret says that emit
\* returned and how many rejections its catch callbacks will log, last.n is
\* the number of errors logged before it returned
EventEmit(event, data) ==
    \E r \in {emit(pm.eventHandlers, event, data)} :
        /\ pm' = [pm EXCEPT !.eventHandlers = r.eventHandlers]
        /\ last' = Op("emit", EArg(event, "-", data), Def(r.calls),
                      [threw |-> FALSE, rejected |-> r.rejected], r.logged)
        /\ UNCHANGED <<store, enabled, now, env, inflight, fresh>>

InitEvents ==
    /\ store = EmptyStore /\ enabled = TRUE /\ now = 0 /\ env = BaseEnv
    /\ inflight = EmptyBag /\ fresh = {} /\ last = NoOp /\ pm = EmptyPM

NextEvents ==
    \/ \E event \in Events, handler \in Handlers : EventOn(event, handler)
    \/ \E event \in Events, handler \in Handlers : EventOff(event, handler)
    \/ \E event \in Events, data \in {Undefined, Def("d")} : EventEmit(event, data)

SpecEvents == InitEvents /\ [][NextEvents]_vars

-----------------------------------------------------------------------------
(* PluginManagerImpl.use / remove (SpecPlugin).  The plugin objects callers *)
(* pass: "base" plugins extend BasePlugin and put their work in onInstall / *)
(* onUninstall, so their hooks fail by rejection; "plain" plugins are       *)
(* object literals whose install / uninstall leave the context alone and    *)
(* may throw before returning or return a promise that rejects.             *)

PluginTable ==
    [pA |-> [name |-> "a", detectors |-> <<"dx1">>,       kind |-> "base"],
     pB |-> [name |-> "a", detectors |-> <<"dx2">>,       kind |-> "plain"],
     pC |-> [name |-> "b", detectors |-> <<"dx3", "dy">>, kind |-> "base"]]

PluginIds == DOMAIN PluginTable

PluginNames == {PluginTable[p].name : p \in PluginIds}

\* Detector.name of the detector objects the plugins carry
DetectorName == [dx1 |-> "x", dx2 |-> "x", dx3 |-> "x", dy |-> "y"]

\* the values hooks throw or reject with
Errors == {"E1", "E2"}

RECURSIVE RegisterAll(_, _)
\* the loop of BasePlugin.install
RegisterAll(ds, detectors) ==
    IF detectors = <<>> THEN ds
    ELSE RegisterAll(registerDetector(ds, DetectorName[Head(detectors)], Head(detectors)),
                     Tail(detectors))

RECURSIVE UnregisterAll(_, _)
\* the loop at the head of remove()
UnregisterAll(ds, detectors) ==
    IF detectors = <<>> THEN ds
    ELSE UnregisterAll(unregisterDetector(ds, DetectorName[Head(detectors)]),
                       Tail(detectors))

\* the context as plugin.install(context) leaves it when it returns its promise
InstallSync(ds, p) ==
    IF PluginTable[p].kind = "base" THEN RegisterAll(ds, PluginTable[p].detectors)
    ELSE ds

UseAlreadyInstalledMutantNever(m, p) == FALSE

\* the test at the head of use()
UseAlreadyInstalled(m, p) == MapHas(m.plugins, PluginTable[p].name)

UseSettlePluginsMutantAlways(plugins, p, ok) == MapSet(plugins, PluginTable[p].name, p)

\* this.plugins when the awaited install has settled
UseSettlePlugins(plugins, p, ok) ==
    IF ok THEN MapSet(plugins, PluginTable[p].name, p) ELSE plugins

\* this.plugins when the awaited uninstall has settled
RemoveSettlePlugins(plugins, p, ok) ==
    IF ok THEN MapDelete(plugins, PluginTable[p].name) ELSE plugins

\* context.emit(event, { plugin, error })
Event(event, p, error) == [event |-> event, plugin |-> p, error |-> error]

\* how a call to use() or remove() ends
Pending == [status |-> "pending", message |-> "-", name |-> "-", cause |-> "-"]
Resolved == [status |-> "resolved", message |-> "-", name |-> "-", cause |-> "-"]
Rejected(message, name, cause) ==
    [status |-> "rejected", message |-> message, name |-> name, cause |-> cause]

\* what an operation of the plugin manager was called with
PArg(p, name, error, had) == [plugin |-> p, name |-> name, error |-> error, had |-> had]

\* the detectors of p the context holds
Registered(ds, p) ==
    {PluginTable[p].detectors[i] : i \in {j \in 1..Len(PluginTable[p].detectors) :
        getDetector(ds, DetectorName[PluginTable[p].detectors[j]])
            = Def(PluginTable[p].detectors[j])}}

\* use(plugin) up to its await
PluginUse(p) ==
    LET name == PluginTable[p].name
    IN  /\ IF UseAlreadyInstalled(pm, p)
           THEN /\ pm' = pm
                /\ inflight' = inflight
                /\ fresh' = fresh
                /\ last' = Op("use", PArg(p, name, "-", {}), <<>>,
                              Rejected("is already installed", name, "-"), 0)
           ELSE \/ /\ PluginTable[p].kind = "plain"
                   /\ \E e \in Errors :
                        last' = Op("use", PArg(p, name, e, {}),
                                   <<Event("plugin:error", p, e)>>,
                                   Rejected("Failed to install plugin", name, e), 1)
                   /\ pm' = pm
                   /\ inflight' = inflight
                   /\ fresh' = fresh
                \/ /\ BagCardinality(inflight) < MaxInflight
                   /\ pm' = [pm EXCEPT !.detectors = InstallSync(@, p)]
                   /\ inflight' = inflight (+)
                         SetToBag({[op |-> "use", plugin |-> p,
                                    had |-> Registered(pm.detectors, p)]})
                   /\ fresh' = fresh \cup {name}
                   /\ last' = Op("use", PArg(p, name, "-", Registered(pm.detectors, p)),
                                 <<>>, Pending, 1)
        /\ UNCHANGED <<store, enabled, now, env>>

\* use() resumes: the promise of install has resolved (outcome "ok") or
\* rejected with the value outcome
PluginUseSettle(c, outcome) ==
    LET p == c.plugin
        name == PluginTable[p].name
    IN  /\ BagIn(c, inflight) /\ c.op = "use"
        /\ inflight' = inflight (-) SetToBag({c})
        /\ pm' = [pm EXCEPT !.plugins = UseSettlePlugins(@, p, outcome = "ok")]
        /\ IF outcome = "ok"
           THEN /\ last' = Op("useSettled", PArg(p, name, "-", c.had),
                              <<Event("plugin:installed", p, "-")>>, Resolved, 0)
                /\ fresh' = fresh \ {name}
           ELSE /\ last' = Op("useSettled", PArg(p, name, outcome, c.had),
                              <<Event("plugin:error", p, outcome)>>,
                              Rejected("Failed to install plugin", name, outcome), 0)
                /\ fresh' = fresh
        /\ UNCHANGED <<store, enabled, now, env>>

\* remove(pluginName) up to its await
PluginRemove(name) ==
    LET plugin == PMGet(pm, name)
    IN  /\ IF plugin = Undefined
           THEN /\ pm' = pm
                /\ inflight' = inflight
                /\ last' = Op("remove", PArg("-", name, "-", {}), <<>>,
                              Rejected("is not installed", name, "-"), 0)
           ELSE LET p == plugin.val
                    had == Registered(pm.detectors, p)
                    left == UnregisterAll(pm.detectors, PluginTable[p].detectors)
                IN  /\ pm' = [pm EXCEPT !.detectors = left]
                    /\ \/ /\ PluginTable[p].kind = "plain"
                          /\ \E e \in Errors :
                                last' = Op("remove", PArg(p, name, e, had),
                                           <<Event("plugin:error", p, e)>>,
                                           Rejected("Failed to remove plugin", name, e), 1)
                          /\ inflight' = inflight
                       \/ /\ BagCardinality(inflight) < MaxInflight
                          /\ inflight' = inflight (+)
                                SetToBag({[op |-> "remove", plugin |-> p, had |-> had]})
                          /\ last' = Op("remove", PArg(p, name, "-", had), <<>>, Pending, 1)
        /\ UNCHANGED <<store, enabled, now, env, fresh>>

\* remove() resumes: the promise of uninstall has resolved or rejected
RemoveSettle(c, outcome) ==
    LET p == c.plugin
        name == PluginTable[p].name
    IN  /\ BagIn(c, inflight) /\ c.op = "remove"
        /\ inflight' = inflight (-) SetToBag({c})
        /\ pm' = [pm EXCEPT !.plugins = RemoveSettlePlugins(@, p, outcome = "ok")]
        /\ IF outcome = "ok"
           THEN last' = Op("removeSettled", PArg(p, name, "-", c.had),
                           <<Event("plugin:removed", p, "-")>>, Resolved, 0)
           ELSE last' = Op("removeSettled", PArg(p, name, outcome, c.had),
                           <<Event("plugin:error", p, outcome)>>,
                           Rejected("Failed to remove plugin", name, outcome), 0)
        /\ UNCHANGED <<store, enabled, now, env>>

PluginRemoveSettle(c, outcome) ==
    /\ RemoveSettle(c, outcome)
    /\ fresh' = IF outcome = "ok" THEN fresh \ {PluginTable[c.plugin].name} ELSE fresh

InitPlugin ==
    /\ store = EmptyStore
    /\ enabled = TRUE
    /\ now = 0
    /\ env = BaseEnv
    /\ inflight = EmptyBag
    /\ fresh = {}
    /\ last = NoOp
    /\ pm = EmptyPM

NextPlugin ==
    \/ \E p \in PluginIds : PluginUse(p)
    \/ \E c \in BagToSet(inflight), outcome \in {"ok"} \cup Errors : PluginUseSettle(c, outcome)
    \/ \E name \in PluginNames : PluginRemove(name)
    \/ \E c \in BagToSet(inflight), outcome \in {"ok"} \cup Errors : PluginRemoveSettle(c, outcome)

SpecPlugin == InitPlugin /\ [][NextPlugin]_vars

-----------------------------------------------------------------------------
(* PluginManagerImpl.clear (SpecClear): one clear() on a manager with some  *)
(* plugins installed and no call pending, followed by the continuations of  *)
(* the remove() calls it started.  fresh is the history of that clear().    *)

MaxHistory == 4

\* the calls made before clear(), each awaited: use(p) of a plugin object or
\* remove(name)
PastCalls ==
    {[op |-> "use", plugin |-> p, name |-> PluginTable[p].name] : p \in PluginIds}
    \cup {[op |-> "remove", plugin |-> "-", name |-> n] : n \in PluginNames}

\* the manager after one such call has completed without a failing hook
AfterCall(m, call) ==
    IF call.op = "use"
    THEN [m EXCEPT !.detectors = InstallSync(@, call.plugin),
                   !.plugins = UseSettlePlugins(@, call.plugin, TRUE)]
    ELSE [m EXCEPT !.detectors = UnregisterAll(@, PluginTable[PMGet(m, call.name).val].detectors),
                   !.plugins = RemoveSettlePlugins(@, PMGet(m, call.name).val, TRUE)]

RECURSIVE AfterCalls(_, _)
\* the manager after the calls of a history; a call that would be rejected
\* at its head test leaves the manager as it is
AfterCalls(m, calls) ==
    IF calls = <<>> THEN m
    ELSE CHOOSE r \in {AfterCalls(m2, Tail(calls)) :
            m2 \in {IF MapHas(m.plugins, Head(calls).name) = (Head(calls).op = "remove")
                    THEN AfterCall(m, Head(calls)) ELSE m}} : TRUE

Histories == UNION {[1..n -> PastCalls] : n \in 0..MaxHistory}

\* what the history records: the plugins installed when clear() was called,
\* the uninstall calls and the 'plugin:removed' events since, and whether an
\* uninstall hook failed
NoClear == [called |-> FALSE, plugins |-> {}, hooks |-> EmptyBag, removed |-> EmptyBag,
            failed |-> FALSE]

\* remove(name) up to its await, for the plugin p found under the name; how
\* is "pending" or the error a plain uninstall throws before it returns
ClearStep(acc, p, how) ==
    [detectors |-> UnregisterAll(acc.detectors, PluginTable[p].detectors),
     started |-> IF how = "pending"
                 THEN acc.started (+) SetToBag({[op |-> "remove", plugin |-> p,
                                                 had |-> Registered(acc.detectors, p)]})
                 ELSE acc.started,
     events |-> IF how = "pending" THEN acc.events
                ELSE Append(acc.events, Event("plugin:error", p, how)),
     hooks |-> acc.hooks (+) SetToBag({p}),
     failed |-> acc.failed \/ how # "pending"]

ClearLoopMutantFirstOnly(acc, ps, how) ==
    IF ps = <<>> THEN acc ELSE ClearStep(acc, Head(ps), how[Head(ps)])

RECURSIVE ClearLoop(_, _, _)
\* for (const pluginName of this.plugins.keys()) this.remove(pluginName)
ClearLoop(acc, ps, how) ==
    IF ps = <<>> THEN acc
    ELSE CHOOSE r \in {ClearLoop(a, Tail(ps), how) :
                          a \in {ClearStep(acc, Head(ps), how[Head(ps)])}} : TRUE

\* clear(): remove() never throws before it returns its promise, so the
\* catch handler of clear() does not run and clear() returns
PluginClear ==
    /\ ~fresh.called
    /\ \E how \in [PluginIds -> {"pending"} \cup Errors] :
          /\ \A p \in PluginIds :
                (PluginTable[p].kind = "base" \/ ~MapHas(pm.plugins, PluginTable[p].name)
                 \/ PMGet(pm, PluginTable[p].name) # Def(p)) => how[p] = "pending"
          /\ \E r \in {ClearLoop([detectors |-> pm.detectors, started |-> EmptyBag,
                                  events |-> <<>>, hooks |-> EmptyBag, failed |-> FALSE],
                                 PMGetAll(pm), how)} :
                /\ pm' = [pm EXCEPT !.detectors = r.detectors]
                /\ inflight' = inflight (+) r.started
                /\ fresh' = [called |-> TRUE,
                             plugins |-> {PMGetAll(pm)[i] : i \in 1..Len(PMGetAll(pm))},
                             hooks |-> r.hooks, removed |-> EmptyBag, failed |-> r.failed]
                /\ last' = Op("clear", PArg("-", "-", "-", {}), r.events, Resolved,
                              BagCardinality(r.hooks))
    /\ UNCHANGED <<store, enabled, now, env>>

\* one of the removals resumes
ClearRemoveSettle(c, outcome) ==
    /\ RemoveSettle(c, outcome)
    /\ fresh' = IF outcome = "ok"
                THEN [fresh EXCEPT !.removed = @ (+) SetToBag({c.plugin})]
                ELSE [fresh EXCEPT !.failed = TRUE]

InitClear ==
    /\ store = EmptyStore /\ enabled = TRUE /\ now = 0 /\ env = BaseEnv
    /\ inflight = EmptyBag /\ fresh = NoClear /\ last = NoOp
    /\ pm \in {AfterCalls(EmptyPM, calls) : calls \in Histories}

NextClear ==
    \/ PluginClear
    \/ \E c \in BagToSet(inflight), outcome \in {"ok"} \cup Errors : ClearRemoveSettle(c, outcome)

SpecClear == InitClear /\ [][NextClear]_vars

-----------------------------------------------------------------------------
(* Properties *)

EntryLive(k) ==
    enabled /\ k \in DOMAIN store /\ now - store[k].timestamp <= store[k].timeout

\* s2 is s without key k, every other entry as it was
Without(s2, s, k) ==
    /\ DOMAIN s2 = DOMAIN s \ {k}
    /\ \A x \in DOMAIN s2 : s2[x] = s[x]

\* s2 is s with key k bound to entry e, every other entry as it was
WithEntry(s2, s, k, e) ==
    /\ DOMAIN s2 = DOMAIN s \cup {k}
    /\ s2[k] = e
    /\ \A x \in DOMAIN s \ {k} : s2[x] = s[x]

C1Disabled ==
    /\ last.op = "disable" => CacheSize(store) = 0
    /\ ~enabled =>
        /\ CacheSize(store) = 0
        /\ last.op = "get" => last.ret = Undefined
        /\ last.op = "has" => last.ret = Def(FALSE)
        /\ last.op = "size" => last.ret = Def(0)

C1Step ==
    /\ (enabled /\ last.op = "set" /\ last'.op = "get" /\ last'.arg = last.arg)
            => last'.ret = last.val
    /\ (~enabled /\ last'.op = "enable") => CacheSize(store') = 0

\* C1: right after disable() size() is 0; while the cache is disabled every
\* get reports absent, every has reports false and every set leaves the store
\* empty; once enabled again, set followed by get of the same key returns the
\* value, and enable() brings back no entry stored before disable().
C1_DisablePurgesAndBypasses == []C1Disabled /\ [][C1Step]_vars

\* a set() was made while the cache was disabled and left nothing behind
C1_Witness == ~enabled /\ last.op = "set" /\ store = EmptyStore

C2Step ==
    /\ (enabled /\ last'.op = "set")
            => WithEntry(store', store, last'.arg, Entry(last'.val, now, last'.n))
    /\ \A k \in DOMAIN store :
        (enabled /\ last'.op \in {"get", "has"} /\ last'.arg = k) =>
            IF now - store[k].timestamp <= store[k].timeout
            THEN /\ last'.ret = IF last'.op = "get" THEN store[k].value ELSE Def(TRUE)
                 /\ store' = store
            ELSE /\ last'.ret = IF last'.op = "get" THEN Undefined ELSE Def(FALSE)
                 /\ Without(store', store, k)
                 /\ CacheSize(store') = CacheSize(store) - 1
    /\ last'.op \in {"tick", "size"} => store' = store

\* C2: with the cache enabled, set(k, v, ttl) stores v stamped with the
\* current time; get(k) returns v (and has(k) true) as long as
\* now - timestamp <= ttl; past that get(k) returns absent and has(k) false,
\* the passing of time alone removes nothing, and the first get(k) or has(k)
\* after expiry removes exactly that entry, so size() drops by one.
C2_ExpiryOnRead == [][C2Step]_vars

\* a get() found its entry expired and evicted it
C2_Witness ==
    /\ enabled /\ last.op = "get" /\ last.ret = Undefined /\ last.n = 1
    /\ last.arg \notin DOMAIN store

KeyOf(d) == "detector:" \o DetOptions[d].name

IsCall(op) == op \in {"detect", "detectAsync"}

\* what detect() on d may do in one step; mustStore says when a computed
\* result has to end up in the cache
C3Detect(d, mustStore) ==
    LET o == DetOptions[d]
        k == KeyOf(d)
        computed == PerformDetection(o.name, env)
    IN  /\ (IsCall(last'.op) /\ o.cache /\ EntryLive(k)) =>
            /\ last'.ret = store[k].value
            /\ last'.n = 0
            /\ store' = store
            /\ inflight' = inflight
        /\ (last'.op = "detect" /\ o.cache /\ ~EntryLive(k)) =>
            /\ last'.n = 1
            /\ last'.ret = computed
            /\ IF mustStore
               THEN WithEntry(store', store, k, Entry(computed, now, o.cacheTimeout))
               ELSE store' = store
        /\ (last'.op = "detectAsync" /\ o.cache /\ ~EntryLive(k)) =>
            /\ last'.n = 1
            /\ inflight' = inflight (+) SetToBag({[det |-> d, result |-> computed]})
            /\ Without(store', store, k) \/ store' = store
        /\ (last'.op = "resolve" /\ o.cache) =>
            /\ BagIn([det |-> d, result |-> last'.ret], inflight)
            /\ last'.n = 0
            /\ IF mustStore
               THEN WithEntry(store', store, k, Entry(last'.ret, now, o.cacheTimeout))
               ELSE store' = store
        /\ (IsCall(last'.op) /\ ~o.cache) =>
            /\ last'.n = 1
            /\ store' = store
            /\ last'.op = "detect" => last'.ret = computed
        /\ (last'.op = "resolve" /\ ~o.cache) =>
            /\ last'.n = 0
            /\ store' = store

\* C3 as stated: a computed result is always stored under the detector's key
C3_Original ==
    [][\A d \in Dets : last'.arg = d => C3Detect(d, TRUE)]_vars

\* C3 (amended): with the cache option on, a live entry under
\* "detector:" + name is returned without running the detection routine and
\* without any cache write; with no live entry the routine runs exactly once
\* and its result is returned and, if the global cache switch is enabled at
\* that moment, stored under that key with the configured cacheTimeout (with
\* the switch off nothing is stored); with the cache option off detect()
\* leaves the cache as it is and runs the routine on every call.  The async
\* path does the same, its store happening when the call resumes.
C3_CacheOrCompute ==
    [][\A d \in Dets : last'.arg = d => C3Detect(d, enabled)]_vars

\* an asynchronous detect() was served from the cache
C3_Witness ==
    /\ last.op = "detectAsync" /\ last.n = 0
    /\ DetOptions[last.arg].cache
    /\ KeyOf(last.arg) \in DOMAIN store
    /\ last.ret = store[KeyOf(last.arg)].value

C4Step(d) ==
    /\ (last'.op = "reset" /\ last'.arg = d) => Without(store', store, KeyOf(d))
    /\ (DetOptions[d].name \in fresh /\ IsCall(last'.op) /\ last'.arg = d) => last'.n = 1

-----------------------------------------------------------------------------
Ran(name) == last.op = "performDetection" /\ last.arg = name

\* C5: for every combination of Docker, WSL and Kubernetes signals,
\* isContainer = isDocker or isWSL or isKubernetes; containerType is defined
\* iff isContainer; containerType is docker whenever isDocker, else wsl
\* whenever isWSL, else kubernetes; and a lower-precedence flag stays true
\* (Docker marker file with WSL evidence gives docker with isWSL true).
C5_ContainerTypePrecedence ==
    Ran("container") =>
        LET r == last.ret
        IN  /\ r.isContainer = (r.isDocker \/ r.isWSL \/ r.isKubernetes)
            /\ r.containerType.def = r.isContainer
            /\ r.isDocker => r.containerType = Def("docker")
            /\ (~r.isDocker /\ r.isWSL) => r.containerType = Def("wsl")
            /\ (~r.isDocker /\ ~r.isWSL /\ r.isKubernetes)
                    => r.containerType = Def("kubernetes")
            /\ ("/.dockerenv" \in env.files /\ "WSLENV" \in DOMAIN env.vars
                    /\ env.platform # "win32")
                    => r.containerType = Def("docker") /\ r.isWSL

\* all three signals fired and docker won
C5_Witness ==
    /\ Ran("container")
    /\ last.ret.isDocker /\ last.ret.isWSL /\ last.ret.isKubernetes
    /\ last.ret.containerType = Def("docker")

\* C6: a result with isCI false has no name, provider or isPR property at
\* all; a result with isCI true has all three.
C6_CIFieldsPresence ==
    Ran("ci") =>
        IF last.ret.isCI
        THEN DOMAIN last.ret = {"isCI", "name", "provider", "isPR"}
        ELSE DOMAIN last.ret = {"isCI"}

\* CI variables are set, none of them truthy, and the result is the bare
\* { isCI: false }
C6_Witness ==
    /\ Ran("ci")
    /\ ~last.ret.isCI
    /\ "CI" \in DOMAIN env.vars

\* C7: with Travis the detected provider, isPR is false when
\* TRAVIS_PULL_REQUEST is unset or "false", and true for any other value.
C7_TravisPullRequest ==
    (Ran("ci") /\ last.ret.isCI /\ last.ret.provider = "travis-ci") =>
        last.ret.isPR =
            ~(\/ "TRAVIS_PULL_REQUEST" \notin DOMAIN env.vars
              \/ env.vars["TRAVIS_PULL_REQUEST"] = <<"f","a","l","s","e">>)

\* C8: every result has isServerless => isCloud, and isCloud exactly when
\* provider is defined.
C8_ServerlessImpliesCloud ==
    (Ran("cloud") /\ ~last.ret.threw) =>
        LET r == last.ret.val
        IN  /\ r.isServerless => r.isCloud
            /\ r.isCloud = (r.provider # Undefined)

\* a serverless variable is set with no provider: neither cloud nor serverless
C8_Witness ==
    /\ Ran("cloud") /\ ~last.ret.threw
    /\ "NETLIFY_DEV" \in DOMAIN env.vars
    /\ ~last.ret.val.isCloud /\ ~last.ret.val.isServerless

\* C9: isElevated = isRoot or isAdmin on every platform and for every
\* outcome of the commands; on darwin and linux isRoot implies isAdmin; on a
\* platform that is none of win32, darwin, linux isAdmin is false even for root.
C9_PrivilegeFlags ==
    Ran("privileges") =>
        LET r == last.ret
        IN  /\ r.isElevated = (r.isRoot \/ r.isAdmin)
            /\ r.isRoot => r.isElevated
            /\ (env.platform \in {"darwin", "linux"} /\ r.isRoot) => r.isAdmin
            /\ env.platform \notin {"win32", "darwin", "linux"} => ~r.isAdmin

\* root on FreeBSD: elevated, not admin
C9_Witness ==
    /\ Ran("privileges")
    /\ env.platform = "freebsd"
    /\ last.ret.isRoot /\ ~last.ret.isAdmin /\ last.ret.isElevated

\* C10: at most one of isWindows, isMacOS, isLinux is true and each is true
\* exactly when type is its family; when an os.* call throws, the result is
\* still a record, with all three flags false, type unknown and platform linux.
C10_OSFlags ==
    Ran("os") =>
        LET r == last.ret
        IN  /\ {"type", "platform", "isWindows", "isMacOS", "isLinux"} \subseteq DOMAIN r
            /\ Cardinality({f \in {"isWindows", "isMacOS", "isLinux"} : r[f]}) <= 1
            /\ r.isWindows = (r.type = "windows")
            /\ r.isMacOS = (r.type = "macos")
            /\ r.isLinux = (r.type = "linux")
            /\ (\/ env.osThrows \in {"platform", "release", "arch"}
                \/ env.osThrows = "version" /\ env.hasOsVersion)
                    => /\ ~r.isWindows /\ ~r.isMacOS /\ ~r.isLinux
                       /\ r.type = "unknown"
                       /\ r.platform = "linux"

\* os.release() threw on macOS and the fallback record came back
C10_Witness ==
    /\ Ran("os")
    /\ env.platform = "darwin" /\ env.osThrows = "release"
    /\ last.ret.type = "unknown" /\ last.ret.platform = "linux"
    /\ ~last.ret.isMacOS

-----------------------------------------------------------------------------
InstallFailed(l) == l.op \in {"use", "useSettled"} /\ l.arg.error \in Errors

UninstallFailed(l) == l.op \in {"remove", "removeSettled"} /\ l.arg.error \in Errors

C11Step ==
    InstallFailed(last') =>
        /\ last'.val = <<Event("plugin:error", last'.arg.plugin, last'.arg.error)>>
        /\ last'.ret = Rejected("Failed to install plugin", last'.arg.name, last'.arg.error)
        /\ PMGetAll(pm') = PMGetAll(pm)
        /\ pm'.plugins = pm.plugins
        /\ (last'.op = "use" \/ last'.arg.name \in fresh)
                => PMGet(pm', last'.arg.name) = Undefined

C12Step ==
    UninstallFailed(last') =>
        /\ last'.val = <<Event("plugin:error", last'.arg.plugin, last'.arg.error)>>
        /\ last'.ret = Rejected("Failed to remove plugin", last'.arg.name, last'.arg.error)
        /\ pm'.plugins = pm.plugins
        /\ last'.op = "remove" => PMGet(pm', last'.arg.name) = Def(last'.arg.plugin)
        /\ \A d \in last'.arg.had :
                getDetector(pm'.detectors, DetectorName[d]) = Def(d)

\* C12: when the uninstall hook of remove(name) throws or rejects, the only
\* event emitted is 'plugin:error', remove() rejects with "Failed to remove
\* plugin", get(name) still returns the plugin and every detector the plugin
\* had registered when remove() was called is still registered.
C12_FailedUninstallKeepsRegistration == [][C12Step]_vars

C13Step ==
    /\ (last'.op = "use" /\ MapHas(pm.plugins, last'.arg.name)) =>
        /\ last'.ret = Rejected("is already installed", last'.arg.name, "-")
        /\ last'.n = 0
        /\ last'.val = <<>>
        /\ pm' = pm
        /\ inflight' = inflight
    /\ (last'.op = "remove" /\ ~MapHas(pm.plugins, last'.arg.name)) =>
        /\ last'.ret = Rejected("is not installed", last'.arg.name, "-")
        /\ last'.n = 0
        /\ last'.val = <<>>
        /\ pm' = pm
        /\ inflight' = inflight

\* C13: use(plugin) while a plugin of that name is installed rejects with
\* "Plugin '<name>' is already installed", calls no hook, emits nothing and
\* leaves the manager and its context as they were; remove(name) of a name
\* that is not installed rejects with "Plugin '<name>' is not installed" and
\* changes nothing.
C13_DuplicateAndMissing == [][C13Step]_vars

\* use() of a second plugin object with an installed name was turned down
C13_Witness ==
    /\ last.op = "use" /\ last.ret.message = "is already installed"
    /\ PMGet(pm, last.arg.name) # Undefined
    /\ PMGet(pm, last.arg.name) # Def(last.arg.plugin)

-----------------------------------------------------------------------------
\* v is a complete result of the detection routine of the detector called name
Produced(name, v) == \E e \in MainEnvs : v = PerformDetection(name, e)

C15Entries ==
    \A k \in DOMAIN store :
        \E d \in Dets :
            /\ k = KeyOf(d) /\ DetOptions[d].cache
            /\ Produced(DetOptions[d].name, store[k].value)
            /\ store[k].timeout = DetOptions[d].cacheTimeout
            /\ store[k].timestamp \in 0..now

C15Step ==
    last'.op = "resolve" =>
        LET o == DetOptions[last'.arg]
            k == KeyOf(last'.arg)
        IN  /\ Produced(o.name, last'.ret)
            /\ (o.cache /\ enabled)
                    => WithEntry(store', store, k, Entry(last'.ret, now, o.cacheTimeout))
            /\ (o.cache /\ enabled /\ last.op = "resolve" /\ KeyOf(last.arg) = k)
                    => /\ store'[k].value \in {last.ret, last'.ret}
                       /\ store'[k].timeout = o.cacheTimeout

\* C15: asynchronous detect() calls on one key may both find the cache cold
\* and both run the detection routine; each resolves to the complete result
\* its own run produced; every cache entry is at all times one complete
\* result stored with a configured cacheTimeout, and after two suspended
\* calls have resumed one after the other the entry is one of their two
\* values, stored with the configured cacheTimeout.
C15_RaceDuplicatesOnly == []C15Entries /\ [][C15Step]_vars

\* one of two racing calls has resumed and written its value while the
\* other, holding a different value, is still suspended
C15_Witness ==
    /\ last.op = "resolve" /\ DetOptions[last.arg].cache
    /\ KeyOf(last.arg) \in DOMAIN store
    /\ store[KeyOf(last.arg)].value = last.ret
    /\ \E c \in BagToSet(inflight) : c.det = last.arg /\ c.result # last.ret

-----------------------------------------------------------------------------
FacadeOf(l) == FacadeOptions[l.arg.facade]

\* getEnvironmentInfo() of the facade of l, called in the current state
InfoNow(l) == InfoRet(Run(FacadeOf(l), FacadeDetectors, store, enabled, now, env))

C14Step ==
    (last'.op = "infoAsync" /\ ~last'.ret.threw) =>
        /\ ~InfoNow(last').threw
        /\ \A i \in 1..Len(FacadeDetectors) :
            LET x == FacadeDetectors[i]
            IN  /\ InfoNow(last').val[x].kind = "value"
                /\ last'.ret.val[x].kind = "value"
                /\ InfoNow(last').val[x].v = last'.ret.val[x].v

\* C14: in one and the same state of cache and environment, the record
\* getEnvironmentInfoAsync() resolves to has in each of its seven fields the
\* detection result that getEnvironmentInfo() returns in that field, for
\* every facade, caching on or off.
C14_AsyncEqualsSync == [][C14Step]_vars

\* every entry of the cache is what its detector computes in environment e
CacheAgrees(e) ==
    \A i \in 1..Len(FacadeDetectors) :
        getCacheKey(FacadeDetectors[i]) \in DOMAIN store
            => store[getCacheKey(FacadeDetectors[i])].value
                    = PerformDetection(FacadeDetectors[i], e)

\* no CI, container or cloud signal, platform linux, NODE_ENV unset
PlainLinux(e) ==
    /\ e.platform = "linux" /\ e.osThrows = "none"
    /\ ~detectCI(e)
    /\ ~ContainerPerformDetection(e).isContainer
    /\ e.caches = "absent"
    /\ ~CloudPerformDetection(e).threw /\ ~CloudPerformDetection(e).val.isCloud
    /\ ~hasEnv(e, "NODE_ENV")

C16Step ==
    (PlainLinux(env) /\ CacheAgrees(env) /\ ~PrivPerformDetection(env).isElevated) =>
        /\ last'.op = "info" =>
            /\ ~last'.ret.threw
            /\ last'.ret.val["mode"].kind = "value"
            /\ last'.ret.val["mode"].v = "development"
            /\ Prop(last'.ret.val["ci"], "isCI") = Def(FALSE)
            /\ Prop(last'.ret.val["cloud"], "isCloud") = Def(FALSE)
        /\ last'.op = "summary" => last'.ret = Returned("linux")

\* C16: in an environment with no CI, container or cloud signal, platform
\* linux and NODE_ENV unset, run by a user who is neither root nor in an
\* admin group, with no cache entry left over from another environment, the
\* snapshot of every facade has mode development, ci.isCI false and
\* cloud.isCloud false, and getEnvironmentSummary() returns "linux".
C16_PlainLinuxSummary == [][C16Step]_vars

\* the cache differs between s and s2 at most in the entry of detector name
OnlyKey(s2, s, name) ==
    /\ DOMAIN s2 \ {getCacheKey(name)} = DOMAIN s \ {getCacheKey(name)}
    /\ \A k \in DOMAIN s \ {getCacheKey(name)} : s2[k] = s[k]

C17Step ==
    /\ last'.op = "accessor" =>
        LET a == last'.arg.accessor
            name == AccessorDetector[a]
        IN  /\ ~InfoNow(last').threw
                    => last'.ret = Returned(Prop(InfoNow(last').val[name], a))
            /\ OnlyKey(store', store, name)
            /\ last'.n <= 1
            /\ LookupHit(FacadeOf(last'), name, store, enabled, now)
                    => last'.n = 0 /\ store' = store
            /\ \A c \in BagToSet(inflight') : DOMAIN c.writes \subseteq {name}
    /\ (last.op = "accessor" /\ last'.op = "settled")
            => OnlyKey(store', store, AccessorDetector[last.arg.accessor])

\* C17: each of the thirteen getters returns what the property of its name
\* has in the field of its detector in the record getEnvironmentInfo()
\* returns in the same state; it runs at most one detection routine, none
\* when its detector's entry is live, and neither the call nor the
\* resumption of what it suspended creates, changes or removes a cache
\* entry other than "detector:" + the name of its own detector.
C17_AccessorsReadThrough == [][C17Step]_vars

\* isDocker ran the container detector, found Docker and cached the result
\* next to the one entry that was there
C17_Witness ==
    /\ last.op = "accessor" /\ last.arg.accessor = "isDocker"
    /\ last.ret = Returned(Def(TRUE)) /\ last.n = 1
    /\ DOMAIN store = {"detector:container", "detector:os"}

-----------------------------------------------------------------------------

\* the fallback chain as the handlers of isWindowsAdmin are written: the
\* session listing, then the group listing, then the protected directory
WindowsTiers(e) ==
    LET net == execSync(e, "net session 2>nul")
        whoami == execSync(e, "whoami /groups")
        systemDir == execSync(e, "dir \"%SystemRoot%\\System32\\config\" 2>nul")
    IN  IF net # Undefined THEN TRUE
        ELSE IF Truthy(whoami)
             THEN \/ Includes(ToLowerCase(whoami.val), <<"s","-","1","-","5","-","3","2","-","5","4","4">>)
                  \/ Includes(ToLowerCase(whoami.val), <<"a","d","m","i","n","i","s","t","r","a","t","o","r","s">>)
             ELSE systemDir # Undefined

\* C18: on Windows isAdmin is the outcome of the three-tier chain: the group
\* listing is consulted when the session listing yields null, the protected
\* directory when the group listing yields null, and isAdmin is false only
\* when no tier succeeds.
C18_WindowsThreeTiers ==
    (Ran("privileges") /\ env.platform = "win32") =>
        /\ last.ret.isAdmin = WindowsTiers(env)
        /\ ~last.ret.isAdmin => execSync(env, "net session 2>nul") = Undefined

AdminGroup(groups) ==
    LET groupList == ToLowerCase(groups)
    IN  \/ Includes(groupList, <<"a","d","m","i","n">>)
        \/ Includes(groupList, <<"s","u","d","o">>)
        \/ Includes(groupList, <<"w","h","e","e","l">>)
        \/ Includes(groupList, <<"r","o","o","t">>)

\* C19: on darwin and linux, for a user that is not root: when the group
\* listing succeeds isAdmin is true exactly when its output contains admin,
\* sudo, wheel or root in any case; when it yields null, a non-null result of
\* the sudo credential check makes isAdmin true.
C19_UnixGroupsThenSudo ==
    (Ran("privileges") /\ env.platform \in {"darwin", "linux"} /\ ~isRoot(env)) =>
        LET groups == execSync(env, "groups")
            sudoCheck == execSync(env, "sudo -n true 2>/dev/null")
        IN  /\ groups # Undefined => (last.ret.isAdmin <=> AdminGroup(groups.val))
            /\ (groups = Undefined /\ sudoCheck # Undefined) => last.ret.isAdmin

\* the providers in the order the claim lists them, each with the variable
\* of its signal and its display name
ProviderOrder ==
    << [provider |-> "github-actions", var |-> "GITHUB_ACTIONS", boolean |-> TRUE,
        name |-> <<"G","i","t","H","u","b"," ","A","c","t","i","o","n","s">>],
       [provider |-> "gitlab-ci", var |-> "GITLAB_CI", boolean |-> TRUE,
        name |-> <<"G","i","t","L","a","b"," ","C","I">>],
       [provider |-> "travis-ci", var |-> "TRAVIS", boolean |-> TRUE,
        name |-> <<"T","r","a","v","i","s"," ","C","I">>],
       [provider |-> "circleci", var |-> "CIRCLECI", boolean |-> TRUE,
        name |-> <<"C","i","r","c","l","e","C","I">>],
       [provider |-> "jenkins", var |-> "JENKINS_URL", boolean |-> FALSE,
        name |-> <<"J","e","n","k","i","n","s">>],
       [provider |-> "azure-pipelines", var |-> "TF_BUILD", boolean |-> TRUE,
        name |-> <<"A","z","u","r","e"," ","P","i","p","e","l","i","n","e","s">>],
       [provider |-> "bitbucket-pipelines", var |-> "BITBUCKET_BUILD_NUMBER", boolean |-> FALSE,
        name |-> <<"B","i","t","b","u","c","k","e","t"," ","P","i","p","e","l","i","n","e","s">>],
       [provider |-> "teamcity", var |-> "TEAMCITY_VERSION", boolean |-> FALSE,
        name |-> <<"T","e","a","m","C","i","t","y">>],
       [provider |-> "appveyor", var |-> "APPVEYOR", boolean |-> TRUE,
        name |-> <<"A","p","p","V","e","y","o","r">>],
       [provider |-> "codebuild", var |-> "CODEBUILD_BUILD_ID", boolean |-> FALSE,
        name |-> <<"A","W","S"," ","C","o","d","e","B","u","i","l","d">>] >>

\* the signal of the i-th provider as the provider check reads it: a true
\* boolean value for six of the variables, presence for the other four
SignalFires(e, i) ==
    IF ProviderOrder[i].boolean THEN getEnvBoolean(e, ProviderOrder[i].var)
    ELSE hasEnv(e, ProviderOrder[i].var)

Firing(e) == {i \in DOMAIN ProviderOrder : SignalFires(e, i)}

First(S) == CHOOSE i \in S : \A j \in S : i <= j

\* C20: when CI is detected, provider is the first provider of the fixed
\* order whose signal fires, whichever later signals fire too, and 'unknown'
\* exactly when none fires; name is the display name of the chosen provider,
\* and for 'unknown' the value of CI_NAME or else "Unknown CI".
C20_ProviderFirstMatch ==
    (Ran("ci") /\ last.ret.isCI) =>
        LET r == last.ret
            F == Firing(env)
        IN  /\ (r.provider = "unknown") <=> (F = {})
            /\ F # {} => /\ r.provider = ProviderOrder[First(F)].provider
                         /\ r.name = ProviderOrder[First(F)].name
            /\ F = {} => r.name = IF Truthy(getEnv(env, "CI_NAME"))
                                  THEN env.vars["CI_NAME"]
                                  ELSE <<"U","n","k","n","o","w","n"," ","C","I">>

\* CircleCI and Jenkins both signal: CircleCI, the earlier one, is reported
C20_Witness ==
    /\ Ran("ci") /\ last.ret.isCI
    /\ getEnvBoolean(env, "CIRCLECI") /\ hasEnv(env, "JENKINS_URL")
    /\ last.ret.provider = "circleci"
    /\ last.ret.name = <<"C","i","r","c","l","e","C","I">>

\* no provider signal, CI_NAME set: the name is its value
C20_WitnessUnknown ==
    /\ Ran("ci") /\ last.ret.isCI
    /\ last.ret.provider = "unknown"
    /\ Truthy(getEnv(env, "CI_NAME")) /\ last.ret.name = env.vars["CI_NAME"]

\* the provider signals in the order the claim lists them; a throw while
\* the Cloudflare globals are probed counts as no signal
CloudSignals(e) ==
    << [provider |-> "aws-lambda",
        fires |-> hasEnv(e, "AWS_LAMBDA_FUNCTION_NAME") \/ hasEnv(e, "AWS_EXECUTION_ENV")],
       [provider |-> "google-cloud-functions",
        fires |-> hasEnv(e, "FUNCTION_NAME") \/ hasEnv(e, "K_SERVICE")],
       [provider |-> "azure-functions",
        fires |-> hasEnv(e, "WEBSITE_SITE_NAME") /\ hasEnv(e, "FUNCTIONS_EXTENSION_VERSION")],
       [provider |-> "vercel", fires |-> hasEnv(e, "VERCEL") \/ hasEnv(e, "VERCEL_ENV")],
       [provider |-> "netlify", fires |-> hasEnv(e, "NETLIFY") \/ hasEnv(e, "NETLIFY_BUILD_BASE")],
       [provider |-> "cloudflare-workers",
        fires |-> \/ hasEnv(e, "CF_WORKER")
                  \/ e.caches = "default"
                  \/ e.caches # "primitive" /\ ~e.cfThrows /\ e.cfGlobal],
       [provider |-> "aws-lambda", fires |-> detectAWS(e)] >>

CloudFiring(e) == {i \in DOMAIN CloudSignals(e) : CloudSignals(e)[i].fires}

\* C21: provider is the first match in the order AWS Lambda, Google Cloud
\* Functions/Run, Azure Functions (both variables), Vercel, Netlify,
\* Cloudflare Workers; the broader AWS heuristic counts only when none of
\* those matched and then gives aws-lambda with isServerless true; a throw
\* while the Cloudflare runtime globals are probed is a negative signal and
\* the detection never throws.
C21_CloudProviderOrder ==
    Ran("cloud") =>
        /\ ~last.ret.threw
        /\ LET r == last.ret.val
               F == CloudFiring(env)
           IN  /\ F = {} => r.provider = Undefined
               /\ F # {} => r.provider = Def(CloudSignals(env)[First(F)].provider)
               /\ (F # {} /\ First(F) = Len(CloudSignals(env))) => r.isServerless

\* the version the claim derives from the text of /proc/version
ClaimedWSLVersion(procVersion) ==
    IF Includes(procVersion, <<"W","S","L","2">>) THEN Def(2)
    ELSE IF \/ Includes(ToLowerCase(procVersion), <<"m","i","c","r","o","s","o","f","t">>)
            \/ Includes(procVersion, <<"W","S","L">>)
        THEN IF KernelMatch(procVersion).def
             THEN IF ParseInt(KernelMatch(procVersion).val) >= 5 THEN Def(2) ELSE Def(1)
             ELSE Undefined
    ELSE Undefined

\* C22: whenever WSL is detected, an explicit WSL2 marker in /proc/version
\* gives wslVersion 2; else with a Microsoft/WSL marker the kernel triad
\* decides, major >= 5 giving 2 and a smaller one 1 (text containing
\* "5.15.90.1-microsoft-standard" gives 2, text containing
\* "4.4.0-19041-Microsoft" gives 1); with no parseable kernel version
\* wslVersion is undefined; wslVersion and wslDistro are defined only when
\* isWSL is true.
C22_WSLVersion ==
    Ran("container") =>
        LET r == last.ret
            procVersion == readFile(env, "/proc/version")
        IN  /\ ~r.isWSL => (r.wslVersion = Undefined /\ r.wslDistro = Undefined)
            /\ (r.isWSL /\ Truthy(procVersion)) =>
                   /\ r.wslVersion = ClaimedWSLVersion(procVersion.val)
                   /\ Includes(procVersion.val, <<"5",".","1","5",".","9","0",".","1","-","m","i","c","r","o","s","o","f","t","-","s","t","a","n","d","a","r","d">>) => r.wslVersion = Def(2)
                   /\ Includes(procVersion.val, <<"4",".","4",".","0","-","1","9","0","4","1","-","M","i","c","r","o","s","o","f","t">>) => r.wslVersion = Def(1)
            /\ (r.isWSL /\ ~Truthy(procVersion)) => r.wslVersion = Undefined

\* the array without its element at position i
WithoutAt(arr, i) == [j \in 1..(Len(arr) - 1) |-> IF j < i THEN arr[j] ELSE arr[j + 1]]

C23Step ==
    LET before == HandlersOf(pm.eventHandlers, last'.arg.event)
        after == HandlersOf(pm'.eventHandlers, last'.arg.event)
    IN  /\ last'.op = "emit" =>
              /\ ~last'.ret.threw
              /\ last'.val = Def([i \in 1..Len(before) |->
                                    [handler |-> before[i], data |-> last'.arg.data]])
        /\ last'.op = "off" =>
              /\ (\A i \in 1..Len(before) : before[i] # last'.arg.handler) => after = before
              /\ (\E i \in 1..Len(before) : before[i] = last'.arg.handler) =>
                    \E i \in 1..Len(before) :
                        /\ before[i] = last'.arg.handler
                        /\ \A j \in 1..(i - 1) : before[j] # last'.arg.handler
                        /\ after = WithoutAt(before, i)

\* C23: emit(event, data) calls every handler registered for the event when
\* emit is called, once per registration, in registration order, each with
\* data; a handler that throws or whose promise rejects neither stops the
\* others nor makes emit throw; off(event, h) removes only the first
\* occurrence of h and changes nothing when h is not registered.
C23_EmitCallsEveryHandler == [][C23Step]_vars

\* clear() has returned and each removal it started has resumed
ClearDone ==
    /\ fresh.called
    /\ \A c \in BagToSet(inflight) : c.op # "remove"

C24State ==
    (ClearDone /\ ~fresh.failed) =>
        /\ \A p \in fresh.plugins :
              /\ CopiesIn(p, fresh.hooks) = 1
              /\ CopiesIn(p, fresh.removed) = 1
        /\ PMGetAll(pm) = <<>>

C24Step ==
    last'.op = "clear" =>
        /\ last'.ret = Resolved
        /\ \A i \in 1..Len(PMGetAll(pm)) :
              LET p == PMGetAll(pm)[i]
              IN  /\ CopiesIn(p, fresh'.hooks) = 1
                  /\ \/ \E c \in BagToSet(inflight') : c.op = "remove" /\ c.plugin = p
                     \/ fresh'.failed

\* C24: clear() never throws; it starts the removal of every installed
\* plugin, and once those removals have completed with no uninstall hook
\* failing, the uninstall hook of each such plugin has been called exactly
\* once, a 'plugin:removed' event has been emitted for each, and getAll() is
\* empty.
C24_ClearRemovesAll == []C24State /\ [][C24Step]_vars

\* two plugins were installed, both removals are over
C24_Witness ==
    /\ ClearDone /\ ~fresh.failed
    /\ Cardinality(fresh.plugins) = 2
    /\ PMGetAll(pm) = <<>>
    /\ last.op = "removeSettled"

-----------------------------------------------------------------------------
\* a detectAsync() call resumes after a reset() of its key that no detect()
\* on that key has followed: the call started before the reset
ResumesAfterReset(l, f) == l.op = "resolve" /\ DetOptions[l.arg].name \in f

C25Step ==
    ResumesAfterReset(last', fresh) =>
        \A d \in Dets :
            DetOptions[d].name = DetOptions[last'.arg].name
                => DetectCached(d, store', enabled', now') = Undefined

\* C25: once reset() has returned, an asynchronous detect() that was in
\* flight when reset() was called and resumes after it does not put its
\* result back: a detect() called next on that key is not served from the
\* cache.
C25_ResetNotUndone == [][C25Step]_vars

-----------------------------------------------------------------------------
\* a use() of a plugin called name is suspended at its await
UseInFlight(name) ==
    \E c \in BagToSet(inflight) : c.op = "use" /\ PluginTable[c.plugin].name = name

C26Step ==
    /\ (last'.op = "use" /\ UseInFlight(last'.arg.name))
            => /\ last'.n = 0
               /\ last'.ret = Rejected("is already installed", last'.arg.name, "-")
    /\ (last'.op = "useSettled" /\ last'.ret = Resolved)
            => ~MapHas(pm.plugins, last'.arg.name)

\* C26: a use() called for a name while another use() of that name is
\* suspended in its install hook does not run the install hook and rejects
\* with 'already installed', and no use() resolves (emitting
\* 'plugin:installed') for a name that is installed already.
C26_OverlappingUse == [][C26Step]_vars

-----------------------------------------------------------------------------
C27Step ==
    (last'.op = "useSettled" /\ last'.ret.status = "rejected") =>
        /\ Registered(pm'.detectors, last'.arg.plugin) \subseteq last'.arg.had
        /\ pm'.plugins = pm.plugins

\* C27: when use(plugin) rejects because the plugin's install step failed,
\* the context holds none of the plugin's detectors that it did not hold
\* when use() was called, and the plugin is not installed.
C27_FailedInstallLeavesNothing == [][C27Step]_vars

-----------------------------------------------------------------------------
\* plugin q is installed under a name other than `name`
InstalledOther(m, q, name) ==
    PluginTable[q].name # name /\ PMGet(m, PluginTable[q].name) = Def(q)

C28Step ==
    (last'.op = "remove" /\ last'.arg.plugin # "-") =>
        \A q \in PluginIds :
            InstalledOther(pm, q, last'.arg.name)
                => Registered(pm.detectors, q) \subseteq Registered(pm'.detectors, q)

\* C28: remove(name) of an installed plugin leaves registered every detector
\* that another, still installed plugin has registered in the context.
C28_RemoveKeepsOthersDetectors == [][C28Step]_vars

-----------------------------------------------------------------------------
\* the provider-specific variables present in the environment
ProviderVarsPresent(e) ==
    {ProviderOrder[i].var : i \in {j \in DOMAIN ProviderOrder : hasEnv(e, ProviderOrder[j].var)}}

\* C29: whenever isCI is true and provider is 'unknown', none of the ten
\* provider-specific variables is present in the environment, whatever its
\* value.
C29_ProviderSignalsAgree ==
    (Ran("ci") /\ last.ret.isCI /\ last.ret.provider = "unknown")
        => ProviderVarsPresent(env) = {}

-----------------------------------------------------------------------------
C30Step ==
    (last'.op = "construct" /\ ~FacadeOptions[last'.arg].cache) =>
        /\ store' = store
        /\ \A d \in Dets :
              (DetOptions[d].cache /\ DetectCached(d, store, enabled, now) # Undefined)
                  => DetectCached(d, store', enabled', now') = DetectCached(d, store, enabled, now)

\* C30: constructing a facade with cache: false removes no cache entry, and
\* a detect() of a caching detector that would be served from the cache
\* before the construction is served the same value from the cache after it.
C30_ConstructorIsLocal == [][C30Step]_vars

====
